---- MODULE Spec2Model ----
(***************************************************************************)
(* Newsletter backend: subscriber store, stats aggregate, admin guard,     *)
(* email provider adapter and broadcast loop.                              *)
(*                                                                         *)
(* Two server sources are modelled side by side, selected by `impl`:       *)
(*   "unified" - the dual-storage / dual-provider server                   *)
(*               (src/unnamed/part_001)                                    *)
(*   "legacy"  - the file-only dual-provider server (src/server.js 1-591;  *)
(*               src/unnamed/part_000 has the same handlers)               *)
(*                                                                         *)
(* A request handler is a process held in a slot of `req`.  One action is  *)
(* one run of handler code between two awaits that wait on real I/O (file  *)
(* system, database, provider, timer); awaits that only resolve promises   *)
(* already settled (the file-mode helpers) do not let another handler run  *)
(* and stay inside the action.                                             *)
(*                                                                         *)
(* JavaScript strings are sequences of chunks (<<"a", "@", "x.com">>), so  *)
(* that includes / startsWith / split are computed on them.                *)
(***************************************************************************)
EXTENDS Integers, Sequences, FiniteSets, TLC

\* ------------------------------------------------------------------ bounds
MaxClicks == 3     \* subscribe calls per behaviour
MaxNow    == 1     \* last clock tick
DayLen    == 1     \* clock ticks per calendar day
MaxFiles  == 1     \* largest number of images offered in one upload (main specification)
MaxUploads == 1    \* files kept under uploads/ after the first upload, per behaviour
MaxBoots  == 1     \* restarts of the process, per behaviour
MaxDay    == 2     \* last calendar day of a day bucket found at start-up
Slots     == {1, 2}

\* ------------------------------------------------------------- JS values
Str(s)     == [has |-> TRUE, val |-> s]
Undefined  == [has |-> FALSE, val |-> <<>>]
Falsy(x)   == ~x.has \/ x.val = <<>>
Includes(x, c) == \E k \in 1..Len(x.val) : x.val[k] = c
StartsWith(s, p) == Len(s) >= Len(p) /\ SubSeq(s, 1, Len(p)) = p

\* String.prototype.split(sep) for a one-chunk separator: the fields between
\* separators, empty fields included.
RECURSIVE Split(_, _)
Split(s, sep) ==
  IF \A k \in 1..Len(s) : s[k] # sep THEN << s >>
  ELSE LET k == CHOOSE j \in 1..Len(s) : s[j] = sep /\ \A h \in 1..(j-1) : s[h] # sep
       IN  << SubSeq(s, 1, k-1) >> \o Split(SubSeq(s, k+1, Len(s)), sep)

Reverse(seq) == [k \in 1..Len(seq) |-> seq[Len(seq) + 1 - k]]
RemoveNothing(seq, k) == seq
RemoveAt(seq, k) == SubSeq(seq, 1, k-1) \o SubSeq(seq, k+1, Len(seq))
Max(a, b) == IF a >= b THEN a ELSE b

\* ------------------------------------------------------------ input sets
EmailA == Str(<<"a", "@", "x.com">>)
EmailB == Str(<<"b", "@", "x.com">>)
Addresses     == {EmailA, EmailB}
BadEmails     == {Undefined, Str(<<>>), Str(<<"a", "x.com">>)}
EmailInputs   == Addresses \cup BadEmails

AdminEmail    == Str(<<"admin", "@", "x.com">>)
AdminPassword == Str(<<"secret">>)

Bearer(tok)   == <<"Bearer", " ">> \o tok
\* 'admin-token-' + Date.now()
TokenBare(t)  == <<"token-", ToString(t)>>
TokenOf(t)    == <<"admin-token-", ToString(t)>>
ForgedToken   == <<"admin-token-", "forged">>
GoodHeader    == Str(Bearer(ForgedToken))
BadHeaders    == { Undefined,
                   Str(<<"Basic", " ", "admin-token-", "0">>),
                   Str(<<"Bearer">>),
                   Str(<<"Bearer", " ">>),
                   Str(<<"Bearer", " ", " ", "admin-token-", "0">>),
                   Str(<<"Bearer", " ", "token-", "0">>) }

\* --------------------------------------------------------------- state
VARIABLES
  CONFIG,        \* the CONFIG object read from the environment
  impl,          \* which server source is running: "unified" | "legacy"
  useMongoDB,    \* storage backend flag
  emailService,  \* provider client: "none" (null) | "nodemailer" | "resend"
  emailProvider, \* "Gmail" | "Resend" | "unknown"
  now,           \* the clock (Date.now())
  emailsDB,      \* in-memory subscriber array
  statsDB,       \* in-memory stats aggregate
  fileEmails,    \* data/emails.json
  fileStats,     \* data/stats.json
  mongoEmails,   \* Email collection
  mongoStats,    \* Stats collection
  uploads,       \* number of files stored under uploads/
  nextId,        \* object identity of the next record / document created
  req,           \* request handlers in flight, one per slot
  calls,         \* history: subscribe calls that passed validation
  rejected,      \* history: subscribe calls answered 400
  issued,        \* history: tokens returned by login
  boots          \* history: restarts of the process

vars == << CONFIG, impl, useMongoDB, emailService, emailProvider, now, emailsDB,
           statsDB, fileEmails, fileStats, mongoEmails, mongoStats, uploads,
           nextId, req, calls, rejected, issued, boots >>

config  == << CONFIG, impl, useMongoDB, emailService, emailProvider >>
fileVars  == << fileEmails, fileStats >>
mongoVars == << mongoEmails, mongoStats >>
memVars   == << emailsDB, statsDB >>
history   == << calls, rejected, issued, boots >>

\* ---------------------------------------------------------- data model
\* subscriber record { email, subscribedAt, verified }; id is object identity
Record(id, e, t) == [id |-> id, email |-> e, subscribedAt |-> t, verified |-> FALSE]
NoRec   == [id |-> 0, email |-> Undefined, subscribedAt |-> 0, verified |-> FALSE]

\* stats aggregate { totalClicks, emailsByDay, totalEmails }; emailsByDay keeps
\* its keys in insertion order, as a JS object / Map does
ZeroStats == [totalClicks |-> 0, emailsByDay |-> <<>>, totalEmails |-> 0]

\* a Stats document of the collection, and a loaded copy of it held by a handler
StatsDoc(id) == [id |-> id, totalClicks |-> 0, emailsByDay |-> <<>>, totalEmails |-> 0]
NoDoc == [id |-> 0, totalClicks |-> 0, emailsByDay |-> <<>>, totalEmails |-> 0,
          modFields |-> {}, modDays |-> {}]
Loaded(d) == [id |-> d.id, totalClicks |-> d.totalClicks, emailsByDay |-> d.emailsByDay,
              totalEmails |-> d.totalEmails, modFields |-> {}, modDays |-> {}]

\* new Date().toISOString().split('T')[0]: the calendar day of a clock value
Today(t) == t \div DayLen

\* emailsByDay[today] || 0
DayCount(byDay, d) ==
  IF \E k \in 1..Len(byDay) : byDay[k].date = d
  THEN (CHOOSE b \in {byDay[k] : k \in 1..Len(byDay)} : b.date = d).count
  ELSE 0

\* emailsByDay[today] = n : overwrite in place, or append a new key
SetDay(byDay, d, n) ==
  IF \E k \in 1..Len(byDay) : byDay[k].date = d
  THEN [k \in 1..Len(byDay) |-> IF byDay[k].date = d THEN [date |-> d, count |-> n] ELSE byDay[k]]
  ELSE Append(byDay, [date |-> d, count |-> n])

\* emailsDB.find(e => e.email === emailAddress) / findIndex: first match, 0 if none
FindNothing(db, e) == 0
FindIndex(db, e) ==
  IF \E k \in 1..Len(db) : db[k].email = e
  THEN CHOOSE k \in 1..Len(db) : db[k].email = e /\ \A h \in 1..(k-1) : db[h].email # e
  ELSE 0

CountVerified(db, v) == Cardinality({k \in 1..Len(db) : db[k].verified = v})

\* ------------------------------------------------------ provider selection
ProviderOfKeyFirst(c) ==
  IF ~Falsy(c.RESEND_API_KEY) THEN "Resend"
  ELSE IF c.USE_GMAIL /\ ~Falsy(c.EMAIL_USER) /\ ~Falsy(c.EMAIL_PASSWORD) THEN "Gmail"
  ELSE "unknown"

ProviderOf(c) ==
  IF c.USE_GMAIL /\ ~Falsy(c.EMAIL_USER) /\ ~Falsy(c.EMAIL_PASSWORD) THEN "Gmail"
  ELSE IF ~Falsy(c.RESEND_API_KEY) THEN "Resend"
  ELSE "unknown"

ServiceOf(c) ==
  IF c.USE_GMAIL /\ ~Falsy(c.EMAIL_USER) /\ ~Falsy(c.EMAIL_PASSWORD) THEN "nodemailer"
  ELSE IF ~Falsy(c.RESEND_API_KEY) THEN "resend"
  ELSE "none"

Config(env, gmail, user, pass, key, aEmail, aPass, uri) ==
  [NODE_ENV |-> env, USE_GMAIL |-> gmail, EMAIL_USER |-> user, EMAIL_PASSWORD |-> pass,
   RESEND_API_KEY |-> key, ADMIN_EMAIL |-> aEmail, ADMIN_PASSWORD |-> aPass,
   MONGODB_URI |-> uri]

MailUser == Str(<<"me", "@", "gmail.com">>)
MailPass == Str(<<"app-password">>)
ApiKey   == Str(<<"re_key">>)
MongoUri == Str(<<"mongodb://db">>)

\* deployments: (development, Gmail, files), (production, Resend, files or database)
GmailConfig  == Config("development", TRUE, MailUser, MailPass, Undefined,
                       AdminEmail, AdminPassword, Undefined)
ResendConfig == Config("production", FALSE, Undefined, Undefined, ApiKey,
                       AdminEmail, AdminPassword, Undefined)
MongoConfig  == Config("production", FALSE, Undefined, Undefined, ApiKey,
                       AdminEmail, AdminPassword, MongoUri)
\* deployments without usable provider credentials: none at all, Gmail asked for
\* but its password missing, none with the database
BareConfig      == Config("production", FALSE, Undefined, Undefined, Undefined,
                          AdminEmail, AdminPassword, Undefined)
HalfConfig      == Config("development", TRUE, MailUser, Undefined, Undefined,
                          AdminEmail, AdminPassword, Undefined)
BareMongoConfig == Config("production", FALSE, Undefined, Undefined, Undefined,
                          AdminEmail, AdminPassword, MongoUri)

\* ---------------------------------------- sendEmail / sendEmailWithAttachments
\* what the provider does with one request: Nodemailer resolves with info.messageId
\* or rejects with an error; Resend resolves with { data: { id }, error: null } or
\* with { data: null, error }, or rejects
Answers(provider) ==
  { [rejected |-> FALSE, id |-> "msg-1", error |-> "null"],
    [rejected |-> TRUE, id |-> "null", error |-> "network-error"] }
  \cup IF provider = "Gmail" THEN {}
       ELSE { [rejected |-> FALSE, id |-> "null", error |-> "provider-error"] }
\* the provider's answers to the first and to a second request, were it made
AnswerStreams == [1..2 -> Answers(emailProvider)]

Returned(n, id) == [requests |-> n, threw |-> FALSE, success |-> TRUE, id |-> id, error |-> "null"]
Thrown(n, error) == [requests |-> n, threw |-> TRUE, success |-> FALSE, id |-> "null", error |-> error]

\* (a second request after a failed one)
sendEmailRetrying(service, provider, answers) ==
  IF service = "none" THEN Thrown(0, "Servicio de email no configurado")
  ELSE IF ~answers[1].rejected /\ answers[1].error = "null" THEN Returned(1, answers[1].id)
  ELSE IF ~answers[2].rejected /\ answers[2].error = "null" THEN Returned(2, answers[2].id)
  ELSE Thrown(2, answers[2].error)

sendEmail(service, provider, answers) ==
  IF service = "none" THEN Thrown(0, "Servicio de email no configurado")
  ELSE LET a == answers[1]
       IN IF provider = "Gmail"
          THEN \* info = await emailService.sendMail(...): a rejection reaches the catch
               IF a.rejected THEN Thrown(1, a.error)
               ELSE Returned(1, a.id)
          ELSE \* { data, error } = await emailService.emails.send(...); if (error) throw error
               IF a.rejected THEN Thrown(1, a.error)
               ELSE IF a.error # "null" THEN Thrown(1, a.error)
               ELSE Returned(1, a.id)

\* ------------------------------------------------------- request handlers
NoResp == [status |-> 0, body |-> [kind |-> "none"]]
Resp(status, body) == [status |-> status, body |-> body]

Idle == [op |-> "idle", pc |-> "idle", ret |-> "none", email |-> Undefined,
         stats |-> NoDoc, rec |-> NoRec, bufEmails |-> <<>>, bufStats |-> ZeroStats,
         subject |-> Undefined, message |-> Undefined, nimg |-> 0,
         attachments |-> <<>>, html |-> <<>>, total |-> 0,
         list |-> <<>>, i |-> 0, successCount |-> 0, failedEmails |-> <<>>,
         verifiedCount |-> 0, resp |-> NoResp,
         \* history of the request, kept with its response
         header |-> Undefined, password |-> Undefined, snapshot |-> <<>>,
         attempted |-> <<>>, failedSends |-> <<>>,
         \* console.error calls made by saveDataToJSON / saveData for this request
         saveErrors |-> 0,
         \* the store the handler's first helper call went to: "file" | "mongo"
         backend |-> "none"]

Free(s) == req[s].pc \in {"idle", "done"}

\* the branch a helper (getStats, findEmail, deleteEmail, ...) takes when called now
Backend == IF useMongoDB THEN "mongo" ELSE "file"

\* res.json(...) / res.status(n).json(...): the handler ends with its response
Done(r, status, body) ==
  [Idle EXCEPT !.op = r.op, !.pc = "done", !.resp = Resp(status, body),
               !.email = r.email, !.subject = r.subject, !.message = r.message,
               !.nimg = r.nimg, !.attachments = r.attachments, !.html = r.html,
               !.header = r.header, !.password = r.password, !.snapshot = r.snapshot,
               !.attempted = r.attempted, !.failedSends = r.failedSends,
               !.saveErrors = r.saveErrors, !.backend = r.backend]

\* sendEmail / sendEmailWithAttachments is called for an address
Sending(r, to) == [r EXCEPT !.pc = "send", !.attempted = Append(r.attempted, to)]
\* ... and it threw
SendFailed(r, to) == [r EXCEPT !.failedSends = Append(r.failedSends, to)]

\* -------------------------------------------------------------- adminAuth
\* TRUE iff the guard calls next(); otherwise it has answered 401
adminAuthAnyToken(header) ==
  LET authHeader == IF Falsy(header) THEN <<>> ELSE header.val
      fields     == Split(authHeader, " ")
      token      == fields[2]
  IN  /\ StartsWith(authHeader, <<"Bearer", " ">>)
      /\ token # <<>>

adminAuth(header) ==
  LET authHeader == IF Falsy(header) THEN <<>> ELSE header.val
      fields     == Split(authHeader, " ")
      token      == fields[2]
  IN  /\ StartsWith(authHeader, <<"Bearer", " ">>)
      /\ token # <<>>
      /\ StartsWith(token, <<"admin-token-">>)

Unauthorized(r) == Done(r, 401, [kind |-> "error", error |-> "No autorizado"])

\* ------------------------------------------------------------------ clock
Tick ==
  /\ now < MaxNow
  /\ now' = now + 1
  /\ UNCHANGED << config, memVars, fileVars, mongoVars, uploads, nextId, req, history >>

\* ------------------------------------------------- POST /api/admin/login
Login(s, e, p) ==
  /\ Free(s)
  /\ LET r == [Idle EXCEPT !.op = "login", !.email = e, !.password = p]
     IN IF e = CONFIG.ADMIN_EMAIL /\ p = CONFIG.ADMIN_PASSWORD
        THEN /\ req' = [req EXCEPT ![s] = Done(r, 200, [kind |-> "token", token |-> TokenOf(now)])]
             /\ issued' = issued \cup {TokenOf(now)}
        ELSE /\ req' = [req EXCEPT ![s] = Done(r, 401, [kind |-> "error", error |-> "Credenciales incorrectas"])]
             /\ issued' = issued
  /\ UNCHANGED << config, now, memVars, fileVars, mongoVars, uploads, nextId, calls, rejected, boots >>

\* ------------------------------------- saveDataToJSON / saveData (3 awaits)
\* the call: fs.mkdir('data') is issued and the handler waits; `ret` names
\* what the handler does once the save has returned
CallSave(r, ret) == [r EXCEPT !.pc = "save_mkdir", !.ret = ret]

\* mkdir done: JSON.stringify(emailsDB) is taken now and the write is issued
MkdirDone(s) ==
  /\ req[s].pc = "save_mkdir"
  /\ req' = [req EXCEPT ![s].pc = "save_emails", ![s].bufEmails = emailsDB]
  /\ UNCHANGED << config, now, memVars, fileVars, mongoVars, uploads, nextId, history >>

\* emails.json written: JSON.stringify(statsDB) is taken now, second write issued
WriteEmailsDone(s) ==
  /\ req[s].pc = "save_emails"
  /\ fileEmails' = [exists |-> TRUE, parses |-> TRUE, data |-> req[s].bufEmails]
  /\ req' = [req EXCEPT ![s].pc = "save_stats", ![s].bufEmails = <<>>, ![s].bufStats = statsDB]
  /\ UNCHANGED << config, now, memVars, fileStats, mongoVars, uploads, nextId, history >>

\* the save has returned (it never throws): the handler r goes on to its next
\* await or to its response
SaveReturned(s, r0) ==
  LET r == [r0 EXCEPT !.bufEmails = <<>>, !.bufStats = ZeroStats, !.ret = "none"]
      ret == r0.ret
  IN CASE ret = "sub_exists" ->
            /\ req' = [req EXCEPT ![s] = Done(r, 200, [kind |-> "exists"])]
            /\ statsDB' = statsDB
       [] ret = "sub_created" ->          \* createEmail returned; saveStats(stats)
            \* saveStats reads useMongoDB now: once the database has connected it
            \* calls stats.save() on the plain statsDB object, a TypeError -> 500
            /\ req' = [req EXCEPT ![s] =
                 IF useMongoDB
                 THEN Done(r, 500, [kind |-> "error", error |-> "Error del servidor"])
                 ELSE CallSave(r, "sub_success")]
            /\ statsDB' = statsDB
       [] ret = "sub_success" ->
            /\ req' = [req EXCEPT ![s] = Done(r, 200, [kind |-> "success"])]
            /\ statsDB' = statsDB
       [] ret = "ver_success" ->
            /\ req' = [req EXCEPT ![s] = Done(r, 200, [kind |-> "success"])]
            /\ statsDB' = statsDB
       [] ret = "del_deleted" ->          \* deleteEmail returned true; getStats, saveStats
            \* getStats reads useMongoDB now: once the database has connected it
            \* issues Stats.findOne()
            IF useMongoDB
            THEN /\ statsDB' = statsDB
                 /\ req' = [req EXCEPT ![s] = [r EXCEPT !.pc = "stats_find"]]
            ELSE /\ statsDB' = [statsDB EXCEPT !.totalEmails = Max(0, statsDB.totalEmails - 1)]
                 /\ req' = [req EXCEPT ![s] = CallSave(r, "del_success")]
       [] ret = "del_success" ->
            /\ req' = [req EXCEPT ![s] = Done(r, 200, [kind |-> "success"])]
            /\ statsDB' = statsDB

\* stats.json written: the save returns
WriteStatsDone(s) ==
  /\ req[s].pc = "save_stats"
  /\ fileStats' = [exists |-> TRUE, parses |-> TRUE, data |-> req[s].bufStats]
  /\ SaveReturned(s, req[s])
  /\ UNCHANGED << config, now, emailsDB, fileEmails, mongoVars, uploads, nextId, history >>

\* fs.mkdir or one of the two fs.writeFile calls rejects: the catch block of the
\* save logs the error and the save returns normally, the remaining writes skipped
\* (the file whose write failed is taken to be left as it was)
SaveFailed(s) ==
  /\ req[s].pc \in {"save_mkdir", "save_emails", "save_stats"}
  /\ SaveReturned(s, [req[s] EXCEPT !.saveErrors = req[s].saveErrors + 1])
  /\ UNCHANGED << config, now, emailsDB, fileVars, mongoVars, uploads, nextId, history >>

\* ---------------------------------------------------- POST /api/subscribe
InvalidEmailOnlyEmpty(e) == Falsy(e)
InvalidEmail(e) == Falsy(e) \/ ~Includes(e, "@")

\* first-time registration on the in-memory store: day bucket, totalEmails, push
RegisterUncounted(st, d) ==
  [st EXCEPT !.emailsByDay = SetDay(st.emailsByDay, d, DayCount(st.emailsByDay, d) + 1)]
Register(st, d) ==
  [st EXCEPT !.emailsByDay = SetDay(st.emailsByDay, d, DayCount(st.emailsByDay, d) + 1),
             !.totalEmails = st.totalEmails + 1]

\* stats.totalClicks++
ClickedNever(st) == st
Clicked(st) == [st EXCEPT !.totalClicks = st.totalClicks + 1]

Subscribe(s, e) ==
  /\ Free(s)
  /\ LET r == [Idle EXCEPT !.op = "subscribe", !.email = e, !.backend = Backend]
         clicked == Clicked(statsDB)
     IN IF InvalidEmail(e)
        THEN /\ calls + rejected < MaxClicks
             /\ rejected' = rejected + 1
             /\ req' = [req EXCEPT ![s] = Done(r, 400, [kind |-> "error", error |-> "Email invalido"])]
             /\ UNCHANGED << memVars, nextId, calls >>
        ELSE /\ calls + rejected < MaxClicks
             /\ calls' = calls + 1
             /\ rejected' = rejected
             /\ IF useMongoDB
                THEN \* getStats(): Stats.findOne() is issued
                     /\ req' = [req EXCEPT ![s] = [r EXCEPT !.pc = "stats_find"]]
                     /\ UNCHANGED << memVars, nextId >>
                ELSE IF FindIndex(emailsDB, e) # 0
                THEN /\ statsDB' = clicked
                     /\ req' = [req EXCEPT ![s] =
                          IF impl = "unified" THEN CallSave(r, "sub_exists")
                          ELSE Done(r, 200, [kind |-> "exists"])]
                     /\ UNCHANGED << emailsDB, nextId >>
                ELSE /\ statsDB' = Register(clicked, Today(now))
                     /\ emailsDB' = Append(emailsDB, Record(nextId, e, now))
                     /\ nextId' = nextId + 1
                     /\ req' = [req EXCEPT ![s] =
                          IF impl = "unified" THEN CallSave(r, "sub_created")
                          ELSE CallSave(r, "sub_success")]
  /\ UNCHANGED << config, now, fileVars, mongoVars, uploads, issued, boots >>

\* ------------------------------------------------- document-database steps
MongoFindIndex(coll, e) == FindIndex(coll, e)
IndexOfId(coll, id) ==
  IF \E k \in 1..Len(coll) : coll[k].id = id
  THEN CHOOSE k \in 1..Len(coll) : coll[k].id = id
  ELSE 0

\* the handler's code after `stats = await getStats()` in database mode
AfterGetStats(r, doc) ==
  CASE r.op = "subscribe" ->      \* stats.totalClicks++ ; findEmail is issued
         [r EXCEPT !.pc = "email_find",
                   !.stats = [Clicked(Loaded(doc)) EXCEPT !.modFields = {"totalClicks"}]]
    [] r.op = "delete" ->         \* totalEmails = Math.max(0, totalEmails - 1) ; save
         [r EXCEPT !.pc = "stats_save", !.ret = "del_success",
                   !.stats = [Loaded(doc) EXCEPT
                      !.totalEmails = Max(0, doc.totalEmails - 1),
                      !.modFields = IF Max(0, doc.totalEmails - 1) # doc.totalEmails
                                    THEN {"totalEmails"} ELSE {}]]
    [] r.op = "stats" ->          \* getAllEmails is issued
         [r EXCEPT !.pc = "stats_list", !.stats = Loaded(doc)]

\* Stats.findOne() answers
StatsFound(s) ==
  /\ req[s].pc = "stats_find"
  /\ req' = [req EXCEPT ![s] =
        IF mongoStats = <<>> THEN [req[s] EXCEPT !.pc = "stats_create"]
        ELSE AfterGetStats(req[s], mongoStats[1])]
  /\ UNCHANGED << config, now, memVars, fileVars, mongoVars, uploads, nextId, history >>

\* Stats.create({...}) answers
StatsCreated(s) ==
  /\ req[s].pc = "stats_create"
  /\ mongoStats' = Append(mongoStats, StatsDoc(nextId))
  /\ nextId' = nextId + 1
  /\ req' = [req EXCEPT ![s] = AfterGetStats(req[s], StatsDoc(nextId))]
  /\ UNCHANGED << config, now, memVars, fileVars, mongoEmails, uploads, history >>

\* stats.save(): the modified paths are $set on the stored document
ApplySave(doc, st) ==
  LET d1 == IF "totalClicks" \in st.modFields
            THEN [doc EXCEPT !.totalClicks = st.totalClicks] ELSE doc
      d2 == IF "totalEmails" \in st.modFields
            THEN [d1 EXCEPT !.totalEmails = st.totalEmails] ELSE d1
      days == st.modDays
  IN  IF days = {} THEN d2
      ELSE LET d == CHOOSE x \in days : TRUE
           IN [d2 EXCEPT !.emailsByDay = SetDay(d2.emailsByDay, d, DayCount(st.emailsByDay, d))]

StatsSaved(s) ==
  /\ req[s].pc = "stats_save"
  /\ LET k == IndexOfId(mongoStats, req[s].stats.id)
     IN mongoStats' = IF k = 0 THEN mongoStats
                      ELSE [mongoStats EXCEPT ![k] = ApplySave(mongoStats[k], req[s].stats)]
  /\ req' = [req EXCEPT ![s] =
        CASE req[s].ret = "sub_exists"  -> Done(req[s], 200, [kind |-> "exists"])
          [] req[s].ret = "sub_success" -> Done(req[s], 200, [kind |-> "success"])
          [] req[s].ret = "del_success" -> Done(req[s], 200, [kind |-> "success"])]
  /\ UNCHANGED << config, now, memVars, fileVars, mongoEmails, uploads, nextId, history >>

\* sendEmail / sendEmailWithAttachments throw before any provider call when no
\* provider is configured
UnconfiguredNever == FALSE
Unconfigured == emailService = "none"

VerifyFailed(r) == Done(r, 500, [kind |-> "error",
    error |-> "Error al enviar email de verificacion",
    details |-> IF CONFIG.NODE_ENV = "development" THEN "raw" ELSE "undefined"])

\* Email.findOne({ email }) answers (subscribe and verify-email)
EmailFound(s) ==
  /\ req[s].pc = "email_find"
  /\ LET r == req[s]
         k == MongoFindIndex(mongoEmails, r.email)
         d == Today(now)
     IN req' = [req EXCEPT ![s] =
          CASE r.op = "subscribe" /\ k # 0 ->
                 [r EXCEPT !.pc = "stats_save", !.ret = "sub_exists"]
            [] r.op = "subscribe" /\ k = 0 ->
                 [r EXCEPT !.pc = "email_create",
                           !.rec = Record(0, r.email, now),
                           !.stats = [r.stats EXCEPT
                              !.emailsByDay = SetDay(r.stats.emailsByDay, d,
                                                DayCount(r.stats.emailsByDay, d) + 1),
                              !.totalEmails = r.stats.totalEmails + 1,
                              !.modFields = r.stats.modFields \cup {"totalEmails"},
                              !.modDays = {d}]]
            [] r.op = "verify" /\ k = 0 ->
                 Done(r, 404, [kind |-> "error", error |-> "Email no encontrado"])
            [] r.op = "verify" /\ k # 0 ->
                 IF Unconfigured
                 THEN VerifyFailed(SendFailed(Sending(r, r.email), r.email))
                 ELSE Sending([r EXCEPT !.rec = mongoEmails[k]], r.email)]
  /\ UNCHANGED << config, now, memVars, fileVars, mongoVars, uploads, nextId, history >>

\* Email.create({...}) answers: the unique index on email rejects a second document
EmailCreated(s) ==
  /\ req[s].pc = "email_create"
  /\ IF MongoFindIndex(mongoEmails, req[s].email) # 0
     THEN /\ req' = [req EXCEPT ![s] = Done(req[s], 500, [kind |-> "error", error |-> "Error del servidor"])]
          /\ UNCHANGED << mongoEmails, nextId >>
     ELSE /\ mongoEmails' = Append(mongoEmails, [req[s].rec EXCEPT !.id = nextId])
          /\ nextId' = nextId + 1
          /\ req' = [req EXCEPT ![s] = [req[s] EXCEPT !.pc = "stats_save", !.ret = "sub_success",
                                                       !.rec = NoRec]]
  /\ UNCHANGED << config, now, memVars, fileVars, mongoStats, uploads, history >>

\* -------------------------------------------------- POST /api/verify-email
Verify(s, e) ==
  /\ Free(s)
  /\ LET r == [Idle EXCEPT !.op = "verify", !.email = e, !.backend = Backend]
         k == FindIndex(emailsDB, e)
     IN req' = [req EXCEPT ![s] =
          IF useMongoDB THEN [r EXCEPT !.pc = "email_find"]
          ELSE IF k = 0 THEN Done(r, 404, [kind |-> "error", error |-> "Email no encontrado"])
          ELSE IF Unconfigured THEN VerifyFailed(SendFailed(Sending(r, e), e))
          ELSE Sending([r EXCEPT !.rec = emailsDB[k]], e)]
  /\ UNCHANGED << config, now, memVars, fileVars, mongoVars, uploads, nextId, history >>

\* emailRecord.verified = true on the object found earlier: it is seen through
\* emailsDB only while that object is still an element of the array
MarkVerified(db, id) ==
  [k \in 1..Len(db) |-> IF db[k].id = id THEN [db[k] EXCEPT !.verified = TRUE] ELSE db[k]]

VerifyAnyway(s, ok) ==
  /\ req[s].pc = "send" /\ req[s].op = "verify"
  /\ emailsDB' = MarkVerified(emailsDB, req[s].rec.id)
  /\ req' = [req EXCEPT ![s] =
        IF ok THEN (IF useMongoDB THEN [req[s] EXCEPT !.pc = "record_save"]
                    ELSE CallSave(req[s], "ver_success"))
        ELSE VerifyFailed(SendFailed(req[s], req[s].email))]
  /\ UNCHANGED << config, now, statsDB, fileVars, mongoVars, uploads, nextId, history >>

\* the handler after `await sendEmail(...)`: the catch block when it threw,
\* otherwise the mark and the save
VerifyOutcome(s, ok) ==
  /\ req[s].pc = "send" /\ req[s].op = "verify"
  /\ IF ~ok
     THEN /\ req' = [req EXCEPT ![s] = VerifyFailed(SendFailed(req[s], req[s].email))]
          /\ emailsDB' = emailsDB
     ELSE IF useMongoDB /\ req[s].backend = "file"
     THEN \* the record is the plain object found in emailsDB before the database
          \* connected: it is marked, and emailRecord.save() is a TypeError -> 500
          /\ emailsDB' = MarkVerified(emailsDB, req[s].rec.id)
          /\ req' = [req EXCEPT ![s] = VerifyFailed(req[s])]
     ELSE IF useMongoDB
     THEN /\ req' = [req EXCEPT ![s].pc = "record_save"]
          /\ emailsDB' = emailsDB
     ELSE /\ emailsDB' = MarkVerified(emailsDB, req[s].rec.id)
          /\ req' = [req EXCEPT ![s] = CallSave(req[s], "ver_success")]
  /\ UNCHANGED << config, now, statsDB, fileVars, mongoVars, uploads, nextId, history >>

\* the provider answers the verification send
VerifySendDone(s, ok) == VerifyOutcome(s, ok)

\* emailRecord.save() answers: $set verified on the document with that _id; when the
\* document is gone the driver version decides between a silent no-op and an error
RecordSaved(s, strict) ==
  /\ req[s].pc = "record_save"
  /\ LET k == IndexOfId(mongoEmails, req[s].rec.id)
     IN IF k # 0
        THEN /\ mongoEmails' = [mongoEmails EXCEPT ![k].verified = TRUE]
             /\ req' = [req EXCEPT ![s] = Done(req[s], 200, [kind |-> "success"])]
        ELSE /\ mongoEmails' = mongoEmails
             /\ req' = [req EXCEPT ![s] =
                  IF strict THEN VerifyFailed(req[s])
                  ELSE Done(req[s], 200, [kind |-> "success"])]
  /\ UNCHANGED << config, now, memVars, fileVars, mongoStats, uploads, nextId, history >>

\* ------------------------------------------ DELETE /api/admin/emails/:email
NotFound(r) == Done(r, 404, [kind |-> "error", error |-> "Email no encontrado"])

Delete(s, header, e) ==
  /\ Free(s)
  /\ LET r == [Idle EXCEPT !.op = "delete", !.email = e, !.header = header,
                           !.backend = Backend]
         k == FindIndex(emailsDB, e)
     IN IF ~adminAuth(header)
        THEN /\ req' = [req EXCEPT ![s] = Unauthorized(r)]
             /\ UNCHANGED memVars
        ELSE IF useMongoDB
        THEN /\ req' = [req EXCEPT ![s] = [r EXCEPT !.pc = "email_delete"]]
             /\ UNCHANGED memVars
        ELSE IF k = 0
        THEN /\ req' = [req EXCEPT ![s] = NotFound(r)]
             /\ UNCHANGED memVars
        ELSE IF impl = "unified"
        THEN \* deleteEmail: splice, await saveDataToJSON()
             /\ emailsDB' = RemoveAt(emailsDB, k)
             /\ statsDB' = statsDB
             /\ req' = [req EXCEPT ![s] = CallSave(r, "del_deleted")]
        ELSE \* splice, statsDB.totalEmails--, await saveData()
             /\ emailsDB' = RemoveAt(emailsDB, k)
             /\ statsDB' = [statsDB EXCEPT !.totalEmails = statsDB.totalEmails - 1]
             /\ req' = [req EXCEPT ![s] = CallSave(r, "del_success")]
  /\ UNCHANGED << config, now, fileVars, mongoVars, uploads, nextId, history >>

\* Email.deleteOne({ email }) answers
EmailDeleted(s) ==
  /\ req[s].pc = "email_delete"
  /\ LET k == MongoFindIndex(mongoEmails, req[s].email)
     IN IF k = 0
        THEN /\ req' = [req EXCEPT ![s] = NotFound(req[s])]
             /\ mongoEmails' = mongoEmails
        ELSE /\ mongoEmails' = RemoveAt(mongoEmails, k)
             /\ req' = [req EXCEPT ![s].pc = "stats_find"]
  /\ UNCHANGED << config, now, memVars, fileVars, mongoStats, uploads, nextId, history >>

\* ----------------------------------------------------- list and chart helpers
\* Email.find().sort({ subscribedAt: -1 }): every order of the collection that is
\* descending by subscribedAt (the order among equal timestamps is not specified)
SortedDesc(coll) ==
  LET n == Len(coll)
      perms == {f \in [1..n -> 1..n] : \A a, b \in 1..n : a # b => f[a] # f[b]}
  IN  { [k \in 1..n |-> coll[f[k]]] : f \in
          {g \in perms : \A a, b \in 1..n :
              a < b => coll[g[a]].subscribedAt >= coll[g[b]].subscribedAt} }

\* getAllEmails() in file mode: [...emailsDB].reverse()
getAllEmails(db) == Reverse(db)

\* Array.prototype.slice(0, n) and slice(-n)
SliceFirst(seq, n) == SubSeq(seq, 1, IF Len(seq) < n THEN Len(seq) ELSE n)
SliceLast(seq, n)  == SubSeq(seq, IF Len(seq) < n THEN 1 ELSE Len(seq) - n + 1, Len(seq))
RecentLimit == 10

\* Object.entries(emailsByDay).map(...).sort((a, b) => new Date(a.date) - new Date(b.date))
RECURSIVE InsertByDate(_, _)
InsertByDate(sorted, b) ==
  IF sorted = <<>> THEN << b >>
  ELSE IF Head(sorted).date <= b.date
       THEN << Head(sorted) >> \o InsertByDate(Tail(sorted), b)
       ELSE << b >> \o sorted

RECURSIVE chartData(_)
chartData(byDay) ==
  IF byDay = <<>> THEN <<>>
  ELSE InsertByDate(chartData(SubSeq(byDay, 1, Len(byDay) - 1)), byDay[Len(byDay)])

StatsBodyUnsorted(st, verifiedCount, unverifiedCount, emails) ==
  [kind |-> "stats", totalClicks |-> st.totalClicks, totalEmails |-> st.totalEmails,
   verifiedEmails |-> verifiedCount, unverifiedEmails |-> unverifiedCount,
   chartData |-> st.emailsByDay, recentEmails |-> emails]
StatsBody(st, verifiedCount, unverifiedCount, emails) ==
  [kind |-> "stats", totalClicks |-> st.totalClicks, totalEmails |-> st.totalEmails,
   verifiedEmails |-> verifiedCount, unverifiedEmails |-> unverifiedCount,
   chartData |-> chartData(st.emailsByDay), recentEmails |-> emails]

\* --------------------------------------------------- GET /api/admin/stats
Stats(s, header) ==
  /\ Free(s)
  /\ LET r == [Idle EXCEPT !.op = "stats", !.header = header]
     IN req' = [req EXCEPT ![s] =
          IF ~adminAuth(header) THEN Unauthorized(r)
          ELSE IF useMongoDB THEN [r EXCEPT !.pc = "stats_find"]
          ELSE Done(r, 200, StatsBody(statsDB, CountVerified(emailsDB, TRUE),
                      CountVerified(emailsDB, FALSE),
                      IF impl = "unified"
                      THEN SliceFirst(getAllEmails(emailsDB), RecentLimit)
                      ELSE Reverse(SliceLast(emailsDB, RecentLimit))))]
  /\ UNCHANGED << config, now, memVars, fileVars, mongoVars, uploads, nextId, history >>

\* -------------------------------------------------- GET /api/admin/emails
Emails(s, header) ==
  /\ Free(s)
  /\ LET r == [Idle EXCEPT !.op = "emails", !.header = header]
     IN req' = [req EXCEPT ![s] =
          IF ~adminAuth(header) THEN Unauthorized(r)
          ELSE IF useMongoDB THEN [r EXCEPT !.pc = "emails_list"]
          ELSE Done(r, 200, [kind |-> "emails",
                  emails |-> IF impl = "unified" THEN getAllEmails(emailsDB) ELSE emailsDB])]
  /\ UNCHANGED << config, now, memVars, fileVars, mongoVars, uploads, nextId, history >>

\* ------------------------------------------------------ POST /api/test-email
TestFailed(r) == Done(r, 500, [kind |-> "error", error |-> "Error al enviar email de prueba",
                               details |-> "raw"])

TestAddress == Str(<<"delivered", "@", "resend.dev">>)

TestEmail(s, header) ==
  /\ Free(s)
  /\ LET r == [Idle EXCEPT !.op = "test", !.header = header]
         to == IF emailProvider = "Gmail" THEN CONFIG.EMAIL_USER ELSE TestAddress
     IN req' = [req EXCEPT ![s] =
          IF ~adminAuth(header) THEN Unauthorized(r)
          ELSE IF Unconfigured THEN TestFailed(SendFailed(Sending(r, to), to))
          ELSE Sending(r, to)]
  /\ UNCHANGED << config, now, memVars, fileVars, mongoVars, uploads, nextId, history >>

TestSendDone(s, ok) ==
  /\ req[s].pc = "send" /\ req[s].op = "test"
  /\ req' = [req EXCEPT ![s] =
        IF ok THEN Done(req[s], 200, [kind |-> "success", provider |-> emailProvider])
        ELSE TestFailed(SendFailed(req[s], req[s].attempted[1]))]
  /\ UNCHANGED << config, now, memVars, fileVars, mongoVars, uploads, nextId, history >>

\* ------------------------------------------- POST /api/admin/send-broadcast
MaxImages == 5

\* images.map((file, index) => ({ path, filename, cid: `image${index}` }))
Attachments(n) ==
  [k \in 1..n |-> [filename |-> <<"file", ToString(k - 1)>>, cid |-> <<"image", ToString(k - 1)>>]]

ImgOneBased(index) == [tag |-> "img", src |-> <<"cid:", "image", ToString(index + 1)>>, text |-> <<ToString(index + 1)>>]
Img(index) == [tag |-> "img", src |-> <<"cid:", "image", ToString(index)>>, text |-> <<ToString(index + 1)>>]
Notice(n)  == [tag |-> "notice", src |-> <<>>, text |-> <<ToString(n)>>]

\* imagesHTML
ImagesHTML(provider, n) ==
  IF provider = "Gmail" THEN [k \in 1..n |-> Img(k - 1)]
  ELSE IF n > 0 THEN << Notice(n) >>
  ELSE <<>>

\* htmlContent: header with the subject, body with the message, imagesHTML, footer
HtmlContent(provider, subject, message, n) ==
  << [tag |-> "h1", src |-> <<>>, text |-> subject.val],
     [tag |-> "p", src |-> <<>>, text |-> message.val] >>
  \o ImagesHTML(provider, n)
  \o << [tag |-> "footer", src |-> <<>>, text |-> <<provider>>] >>

\* the array the for...of loop walks: the live emailsDB (legacy) or the copy
\* returned by getAllEmails (unified)
Walked(r, db) == IF impl = "legacy" THEN db ELSE r.list

BroadcastBody(r, db) ==
  [kind |-> "broadcast", count |-> r.successCount, failed |-> Len(r.failedEmails),
   failedEmails |-> r.failedEmails,
   total |-> IF impl = "legacy" THEN Len(db) ELSE r.total]

Finish(r, db) == Done(r, 200, BroadcastBody(r, db))

\* catch (error) { failedEmails.push(record.email) }
CaughtUnrecorded(r) == r
Caught(r) == [r EXCEPT !.failedEmails = Append(r.failedEmails, r.rec.email)]

\* (all the remaining sends issued together)
AdvanceAll(r, db) ==
  LET src == Walked(r, db)
  IN  IF r.i + 1 > Len(src) THEN Finish(r, db)
      ELSE [r EXCEPT !.pc = "send", !.i = Len(src), !.rec = src[Len(src)],
                     !.attempted = r.attempted \o
                        [k \in 1..(Len(src) - r.i) |-> src[r.i + k].email]]

\* next round of the loop: the iterator yields the element at the next index, if
\* any, and the send is issued; with no provider the send throws at once, the
\* address is recorded and the loop goes on
RECURSIVE Advance(_, _)
Advance(r, db) ==
  LET src == Walked(r, db)
      j   == r.i + 1
  IN  IF j > Len(src) THEN Finish(r, db)
      ELSE LET r1 == Sending([r EXCEPT !.i = j, !.rec = src[j]], src[j].email)
           IN IF Unconfigured
              THEN Advance(Caught(SendFailed(r1, src[j].email)), db)
              ELSE r1

\* !subject || !message
MissingSubject(subject, message) == Falsy(subject)
MissingFields(subject, message) == Falsy(subject) \/ Falsy(message)

\* attachments and htmlContent are built once, before the loop
Prepared(r) ==
  [r EXCEPT !.attachments = Attachments(r.nimg),
            !.html = HtmlContent(emailProvider, r.subject, r.message, r.nimg)]

Broadcast(s, header, subject, message, n) ==
  /\ Free(s)
  /\ LET r == [Idle EXCEPT !.op = "broadcast", !.header = header, !.subject = subject,
                           !.message = message, !.nimg = n]
     IN IF ~adminAuth(header)
        THEN /\ req' = [req EXCEPT ![s] = Unauthorized(r)]
             /\ uploads' = uploads
        ELSE IF n > MaxImages
        THEN \* upload.array('images', 5) rejects the request; nothing is kept
             /\ req' = [req EXCEPT ![s] = Done(r, 500, [kind |-> "error", error |-> "upload"])]
             /\ uploads' = uploads
        ELSE /\ uploads = 0 \/ uploads + n <= MaxUploads
             /\ uploads' = uploads + n
             /\ req' = [req EXCEPT ![s] =
                  IF MissingFields(subject, message)
                  THEN Done(r, 400, [kind |-> "error", error |-> "Asunto y mensaje son requeridos"])
                  ELSE IF useMongoDB THEN [r EXCEPT !.pc = "count_all"]
                  ELSE IF Len(emailsDB) = 0
                  THEN Done(r, 400, [kind |-> "error", error |-> "No hay emails registrados"])
                  ELSE LET walk == IF impl = "unified" THEN getAllEmails(emailsDB) ELSE emailsDB
                       IN Advance([Prepared(r) EXCEPT
                                     !.total = Len(emailsDB),
                                     !.list = IF impl = "unified" THEN walk ELSE <<>>,
                                     !.snapshot = walk], emailsDB)]
  /\ UNCHANGED << config, now, memVars, fileVars, mongoVars, nextId, history >>

\* (a delivered send marks its recipient verified, as verify-email does)
BroadcastSendMarks(s, ok) ==
  /\ req[s].pc = "send" /\ req[s].op = "broadcast"
  /\ req' = [req EXCEPT ![s] =
        IF ok THEN [req[s] EXCEPT !.successCount = req[s].successCount + 1, !.pc = "delay"]
        ELSE Advance(Caught(SendFailed(req[s], req[s].rec.email)), emailsDB)]
  /\ emailsDB' = IF ok THEN MarkVerified(emailsDB, req[s].rec.id) ELSE emailsDB
  /\ mongoEmails' = IF ok THEN MarkVerified(mongoEmails, req[s].rec.id) ELSE mongoEmails
  /\ UNCHANGED << config, now, statsDB, fileVars, mongoStats, uploads, nextId, history >>

\* the provider answers one send of the loop
BroadcastSendDone(s, ok) ==
  /\ req[s].pc = "send" /\ req[s].op = "broadcast"
  /\ req' = [req EXCEPT ![s] =
        IF ok THEN [req[s] EXCEPT !.successCount = req[s].successCount + 1, !.pc = "delay"]
        ELSE Advance(Caught(SendFailed(req[s], req[s].rec.email)), emailsDB)]
  /\ UNCHANGED << config, now, memVars, fileVars, mongoVars, uploads, nextId, history >>

\* the 100 ms timer after a successful send fires
DelayNever(s) == FALSE
DelayDone(s) ==
  /\ req[s].pc = "delay"
  /\ req' = [req EXCEPT ![s] = Advance(req[s], emailsDB)]
  /\ UNCHANGED << config, now, memVars, fileVars, mongoVars, uploads, nextId, history >>

\* Email.countDocuments(filter) answers (database mode)
Counted(s) ==
  /\ req[s].pc \in {"count_all", "count_verified", "count_unverified"}
  /\ LET r == req[s]
     IN req' = [req EXCEPT ![s] =
          CASE r.pc = "count_all" ->
                 IF Len(mongoEmails) = 0
                 THEN Done(r, 400, [kind |-> "error", error |-> "No hay emails registrados"])
                 ELSE [Prepared(r) EXCEPT !.total = Len(mongoEmails), !.pc = "broadcast_list"]
            [] r.pc = "count_verified" ->
                 [r EXCEPT !.verifiedCount = CountVerified(mongoEmails, TRUE),
                           !.pc = "count_unverified"]
            [] r.pc = "count_unverified" ->
                 Done(r, 200, StatsBody(r.stats, r.verifiedCount,
                         CountVerified(mongoEmails, FALSE), SliceFirst(r.list, RecentLimit)))]
  /\ UNCHANGED << config, now, memVars, fileVars, mongoVars, uploads, nextId, history >>

\* Email.find().sort({ subscribedAt: -1 }) answers (database mode)
Listed(s, order) ==
  /\ req[s].pc \in {"broadcast_list", "stats_list", "emails_list"}
  /\ order \in SortedDesc(mongoEmails)
  /\ LET r == req[s]
     IN req' = [req EXCEPT ![s] =
          CASE r.pc = "broadcast_list" ->
                 Advance([r EXCEPT !.list = order, !.snapshot = order], emailsDB)
            [] r.pc = "stats_list" -> [r EXCEPT !.list = order, !.pc = "count_verified"]
            [] r.pc = "emails_list" -> Done(r, 200, [kind |-> "emails", emails |-> order])]
  /\ UNCHANGED << config, now, memVars, fileVars, mongoVars, uploads, nextId, history >>

\* ------------------------------------------------------------ specification
NoFile == [exists |-> FALSE, parses |-> FALSE, data |-> <<>>]
NoStatsFile == [exists |-> FALSE, parses |-> FALSE, data |-> ZeroStats]

\* the server after start-up on a fresh deployment: no data files, empty database
Started(c, variant) ==
  /\ CONFIG = c
  /\ impl = variant
  /\ useMongoDB = (variant = "unified" /\ ~Falsy(c.MONGODB_URI))
  /\ emailService = ServiceOf(c)
  /\ emailProvider = ProviderOf(c)
  /\ now = 0
  /\ emailsDB = <<>>
  /\ statsDB = ZeroStats
  /\ fileEmails = NoFile
  /\ fileStats = NoStatsFile
  /\ mongoEmails = <<>>
  /\ mongoStats = <<>>
  /\ uploads = 0
  /\ nextId = 1
  /\ req = [s \in Slots |-> Idle]
  /\ calls = 0
  /\ rejected = 0
  /\ issued = {}
  /\ boots = 0

Deployments == { <<GmailConfig, "unified">>, <<GmailConfig, "legacy">>, <<MongoConfig, "unified">> }

Subjects == {Undefined, Str(<<"News">>)}
Message  == Str(<<"Hello">>)
Messages == {Str(<<>>), Message}

\* steps that end an await on the store: file writes and database answers
SubscribeStep(s) ==
  \/ MkdirDone(s)
  \/ WriteEmailsDone(s)
  \/ WriteStatsDone(s)
  \/ StatsFound(s)
  \/ StatsCreated(s)
  \/ StatsSaved(s)
  \/ EmailFound(s)
  \/ EmailCreated(s)

StoreStep(s) ==
  \/ SubscribeStep(s)
  \/ EmailDeleted(s)

VerifyStep(s) ==
  \/ \E ok \in BOOLEAN : VerifySendDone(s, ok)
  \/ \E strict \in BOOLEAN : RecordSaved(s, strict)

BroadcastStep(s) ==
  \/ \E ok \in BOOLEAN : BroadcastSendDone(s, ok)
  \/ DelayDone(s)
  \/ Counted(s)
  \/ \E order \in SortedDesc(mongoEmails) : Listed(s, order)

\* Spec: requests served one after the other (one handler in flight), on a fresh
\* deployment of each server
Init == \E d \in Deployments : Started(d[1], d[2])

Next ==
  \/ Tick
  \/ \E e \in EmailInputs : Subscribe(1, e)
  \/ \E e \in Addresses : Verify(1, e)
  \/ \E e \in Addresses : Delete(1, GoodHeader, e)
  \/ \E subject \in Subjects, message \in Messages, n \in 0..MaxFiles :
       Broadcast(1, GoodHeader, subject, message, n)
  \/ StoreStep(1)
  \/ VerifyStep(1)
  \/ BroadcastStep(1)

Spec == Init /\ [][Next]_vars

\* --------------------------------------------------- mongoose.connect(...)
\* the connection promise resolves after the server has begun to serve: the .then
\* callback sets useMongoDB = true (a rejected connection leaves it false)
Connected ==
  /\ impl = "unified" /\ ~Falsy(CONFIG.MONGODB_URI)
  /\ ~useMongoDB
  /\ useMongoDB' = TRUE
  /\ UNCHANGED << CONFIG, impl, emailService, emailProvider, now, memVars, fileVars,
                  mongoVars, uploads, nextId, req, history >>

\* startServer with MONGODB_URI set: useMongoDB is still false when app.listen is
\* called, the data files (none on a fresh deployment) were loaded
InitConnect ==
  /\ CONFIG = MongoConfig /\ impl = "unified"
  /\ useMongoDB = FALSE
  /\ emailService = ServiceOf(MongoConfig) /\ emailProvider = ProviderOf(MongoConfig)
  /\ now = 0 /\ emailsDB = <<>> /\ statsDB = ZeroStats
  /\ fileEmails = NoFile /\ fileStats = NoStatsFile
  /\ mongoEmails = <<>> /\ mongoStats = <<>>
  /\ uploads = 0 /\ nextId = 1
  /\ req = [s \in Slots |-> Idle]
  /\ calls = 0 /\ rejected = 0 /\ issued = {} /\ boots = 0

\* SpecConnect: requests served one at a time while the connection is pending,
\* and after it has completed
NextConnect ==
  \/ Connected
  \/ \E e \in Addresses : Subscribe(1, e)
  \/ \E e \in Addresses : Verify(1, e)
  \/ \E e \in Addresses : Delete(1, GoodHeader, e)
  \/ Emails(1, GoodHeader)
  \/ StoreStep(1)
  \/ VerifyStep(1)
  \/ \E order \in SortedDesc(mongoEmails) : Listed(1, order)

SpecConnect == InitConnect /\ [][NextConnect]_vars

\* ------------------------------------------------------- process restart
\* loadData / loadDataFromJSON: both files are read, then emailsDB is assigned the
\* parsed emails.json, then statsDB the parsed stats.json; the first readFile or
\* JSON.parse that throws ends the function, the assignments made so far kept
loadData(emailsFile, statsFile) ==
  IF ~emailsFile.exists \/ ~statsFile.exists
  THEN [emailsDB |-> <<>>, statsDB |-> ZeroStats]
  ELSE IF ~emailsFile.parses
  THEN [emailsDB |-> <<>>, statsDB |-> ZeroStats]
  ELSE IF ~statsFile.parses
  THEN [emailsDB |-> emailsFile.data, statsDB |-> ZeroStats]
  ELSE [emailsDB |-> emailsFile.data, statsDB |-> statsFile.data]

\* the process ends at any moment (handlers in flight are lost) and is started
\* again: loadData / loadDataFromJSON replaces both emailsDB and statsDB by the
\* contents of the two files, or keeps both defaults when a file cannot be read
Restart ==
  /\ boots < MaxBoots
  /\ boots' = boots + 1
  /\ req' = [s \in Slots |-> Idle]
  /\ emailsDB' = loadData(fileEmails, fileStats).emailsDB
  /\ statsDB' = loadData(fileEmails, fileStats).statsDB
  /\ UNCHANGED << config, now, fileVars, mongoVars, uploads, nextId, calls, rejected, issued >>

\* the process ends while fs.writeFile of handler s is writing (the file has been
\* opened with flag 'w', so it is truncated, and its content is incomplete), and is
\* started again
Killed(s) ==
  LET torn == [exists |-> TRUE, parses |-> FALSE, data |-> <<>>]
      tornStats == [exists |-> TRUE, parses |-> FALSE, data |-> ZeroStats]
  IN  /\ boots < MaxBoots
      /\ req[s].pc \in {"save_emails", "save_stats"}
      /\ boots' = boots + 1
      /\ req' = [t \in Slots |-> Idle]
      /\ fileEmails' = IF req[s].pc = "save_emails" THEN torn ELSE fileEmails
      /\ fileStats' = IF req[s].pc = "save_stats" THEN tornStats ELSE fileStats
      /\ emailsDB' = loadData(fileEmails', fileStats').emailsDB
      /\ statsDB' = loadData(fileEmails', fileStats').statsDB
      /\ UNCHANGED << config, now, mongoVars, uploads, nextId, calls, rejected, issued >>

\* SpecRestart: the file-backed servers, one handler in flight, with restarts
FileDeployments == { <<GmailConfig, "unified">>, <<GmailConfig, "legacy">> }

InitRestart == \E d \in FileDeployments : Started(d[1], d[2])

NextRestart ==
  \/ \E e \in Addresses : Subscribe(1, e)
  \/ \E e \in Addresses : Delete(1, GoodHeader, e)
  \/ MkdirDone(1)
  \/ WriteEmailsDone(1)
  \/ WriteStatsDone(1)
  \/ Restart

SpecRestart == InitRestart /\ [][NextRestart]_vars

\* SpecLoad: the file-backed servers, one handler in flight, with restarts that
\* may fall into a write to a data file
NextLoad ==
  \/ \E e \in Addresses : Subscribe(1, e)
  \/ \E e \in Addresses : Delete(1, GoodHeader, e)
  \/ MkdirDone(1)
  \/ WriteEmailsDone(1)
  \/ WriteStatsDone(1)
  \/ Restart
  \/ Killed(1)

SpecLoad == InitRestart /\ [][NextLoad]_vars

\* SpecStore: two handlers in flight, subscribe and delete requests overlapping
NextStore ==
  \/ \E s \in Slots, e \in Addresses : Subscribe(s, e)
  \/ \E e \in Addresses : Delete(2, GoodHeader, e)
  \/ \E s \in Slots : StoreStep(s)

SpecStore == Init /\ [][NextStore]_vars

\* SpecOverlap: the file-backed servers, two clients whose requests all change the
\* store and save it (first-time subscribes, deletes of a registered address),
\* their saves overlapping
NextOverlap ==
  \/ \E s \in Slots, e \in Addresses : FindIndex(emailsDB, e) = 0 /\ Subscribe(s, e)
  \/ \E s \in Slots, e \in Addresses : FindIndex(emailsDB, e) # 0 /\ Delete(s, GoodHeader, e)
  \/ \E s \in Slots : MkdirDone(s)
  \/ \E s \in Slots : WriteEmailsDone(s)
  \/ \E s \in Slots : WriteStatsDone(s)

SpecOverlap == InitRestart /\ [][NextOverlap]_vars

\* SpecFile: the file-backed servers, requests served one after the other
NextFile ==
  \/ \E e \in EmailInputs : Subscribe(1, e)
  \/ \E e \in Addresses : Verify(1, e)
  \/ \E e \in Addresses : Delete(1, GoodHeader, e)
  \/ Broadcast(1, GoodHeader, Str(<<"News">>), Message, 0)
  \/ MkdirDone(1)
  \/ WriteEmailsDone(1)
  \/ WriteStatsDone(1)
  \/ \E ok \in BOOLEAN : VerifySendDone(1, ok)
  \/ \E ok \in BOOLEAN : BroadcastSendDone(1, ok)
  \/ DelayDone(1)

SpecFile == InitRestart /\ [][NextFile]_vars

\* SpecPair: two subscribe handlers in flight at once, nothing else
NextPair ==
  \/ \E s \in Slots, e \in Addresses : Subscribe(s, e)
  \/ \E s \in Slots : SubscribeStep(s)

SpecPair == Init /\ [][NextPair]_vars

\* SpecWatch: the stats route (slot 1) called while a subscribe, verify-email or
\* delete request (slot 2) is in flight
NextWatch ==
  \/ Stats(1, GoodHeader)
  \/ Counted(1)
  \/ \E order \in SortedDesc(mongoEmails) : Listed(1, order)
  \/ (calls < 2 /\ \E e \in Addresses : Subscribe(2, e))
  \/ Verify(2, EmailA)
  \/ Delete(2, GoodHeader, EmailA)
  \/ \E s \in Slots : StoreStep(s)
  \/ VerifyStep(2)

SpecWatch == Init /\ [][NextWatch]_vars

\* SpecVerify: a verify-email request (slot 1) overlapping with subscribe and
\* delete requests for the same address (slot 2); the deletes arrive while the
\* verification send of slot 1 is in flight
NextVerify ==
  \/ Verify(1, EmailA)
  \/ VerifyStep(1)
  \/ Subscribe(2, EmailA)
  \/ (req[1].pc = "send" /\ Delete(2, GoodHeader, EmailA))
  \/ \E s \in Slots : StoreStep(s)

SpecVerify == Init /\ [][NextVerify]_vars

\* SpecBroadcast: a broadcast run (slot 1) overlapping with subscribe requests (slot 2)
NextBroadcast ==
  \/ \E e \in Addresses : Subscribe(2, e)
  \/ SubscribeStep(2)
  \/ Broadcast(1, GoodHeader, Str(<<"News">>), Message, 0)
  \/ BroadcastStep(1)

SpecBroadcast == Init /\ [][NextBroadcast]_vars

\* SpecRun: a broadcast run (slot 1) overlapping with subscribe and delete
\* requests (slot 2)
NextRun ==
  \/ NextBroadcast
  \/ \E e \in Addresses : Delete(2, GoodHeader, e)
  \/ EmailDeleted(2)

SpecRun == Init /\ [][NextRun]_vars

\* SpecFrame: broadcast calls of every kind (slot 1: no token, missing fields, empty
\* store, sends that succeed or fail) beside subscribe and verify-email requests
\* (slot 2)
NextFrame ==
  \/ NextBroadcast
  \/ \E h \in {Undefined, GoodHeader}, subject \in Subjects, message \in Messages :
       Broadcast(1, h, subject, message, 0)
  \/ \E e \in Addresses : Verify(2, e)
  \/ VerifyStep(2)

SpecFrame == Init /\ [][NextFrame]_vars

\* SpecLive: SpecRun where the broadcast handler is never left waiting for ever:
\* the provider settles every send, the timer fires, the database answers
SpecLive == SpecRun /\ WF_vars(BroadcastStep(1))

\* SpecAuth: login and the protected operations under every kind of header
Credentials == { <<AdminEmail, AdminPassword>>, <<AdminEmail, Str(<<"wrong">>)>>,
                 <<EmailA, AdminPassword>>, <<AdminEmail, Undefined>>,
                 <<Undefined, Undefined>> }
Headers == BadHeaders \cup {GoodHeader} \cup {Str(Bearer(t)) : t \in issued}

NextAuth ==
  \/ Tick
  \/ \E c \in Credentials : Login(1, c[1], c[2])
  \/ (calls = 0 /\ Subscribe(1, EmailA))
  \/ \E h \in Headers : Stats(1, h)
  \/ \E h \in Headers : Emails(1, h)
  \/ \E h \in Headers : Delete(1, h, EmailA)
  \/ \E h \in Headers : Broadcast(1, h, Str(<<"News">>), Message, 0)
  \/ \E h \in Headers : TestEmail(1, h)
  \/ \E ok \in BOOLEAN : TestSendDone(1, ok)
  \/ StoreStep(1)
  \/ BroadcastStep(1)

SpecAuth == Init /\ [][NextAuth]_vars

\* SpecRender: broadcasts with every number of images under both providers
RenderDeployments == { <<GmailConfig, "unified">>, <<GmailConfig, "legacy">>,
                       <<ResendConfig, "unified">>, <<ResendConfig, "legacy">> }

InitRender == \E d \in RenderDeployments : Started(d[1], d[2])

NextRender ==
  \/ Subscribe(1, EmailA)
  \/ MkdirDone(1)
  \/ WriteEmailsDone(1)
  \/ WriteStatsDone(1)
  \/ \E n \in 0..(MaxImages + 1) : Broadcast(1, GoodHeader, Str(<<"News">>), Message, n)
  \/ \E ok \in BOOLEAN : BroadcastSendDone(1, ok)
  \/ DelayDone(1)

SpecRender == InitRender /\ [][NextRender]_vars

\* SpecChart: the server started on data left by an earlier process whose day
\* buckets were inserted in any order, all subscribers since deleted; the stats
\* route is then called
DayMaps ==
  LET Buckets == [date : 0..MaxDay, count : 1..2]
  IN  { m \in UNION { [1..n -> Buckets] : n \in 0..(MaxDay + 1) } :
          \A a, b \in 1..Len(m) : a # b => m[a].date # m[b].date }

RECURSIVE SumCounts(_)
SumCounts(m) == IF m = <<>> THEN 0 ELSE Head(m).count + SumCounts(Tail(m))

\* loadDataFromJSON / loadData found both files; or the Stats document exists
StartedOn(c, variant, byDay) ==
  LET st == [totalClicks |-> SumCounts(byDay), emailsByDay |-> byDay, totalEmails |-> 0]
      mongo == variant = "unified" /\ ~Falsy(c.MONGODB_URI)
  IN  /\ CONFIG = c
      /\ impl = variant
      /\ useMongoDB = mongo
      /\ emailService = ServiceOf(c)
      /\ emailProvider = ProviderOf(c)
      /\ now = 0
      /\ emailsDB = <<>>
      /\ statsDB = IF mongo THEN ZeroStats ELSE st
      /\ fileEmails = IF mongo THEN NoFile ELSE [exists |-> TRUE, parses |-> TRUE, data |-> <<>>]
      /\ fileStats = IF mongo THEN NoStatsFile ELSE [exists |-> TRUE, parses |-> TRUE, data |-> st]
      /\ mongoEmails = <<>>
      /\ mongoStats = IF mongo
                      THEN << [StatsDoc(1) EXCEPT !.totalClicks = st.totalClicks,
                                                  !.emailsByDay = byDay] >>
                      ELSE <<>>
      /\ uploads = 0
      /\ nextId = 2
      /\ req = [s \in Slots |-> Idle]
      /\ calls = 0
      /\ rejected = 0
      /\ issued = {}
      /\ boots = 0

InitChart == \E d \in Deployments, m \in DayMaps : StartedOn(d[1], d[2], m)

NextChart ==
  \/ Stats(1, GoodHeader)
  \/ StatsFound(1)
  \/ \E order \in SortedDesc(mongoEmails) : Listed(1, order)
  \/ Counted(1)

SpecChart == InitChart /\ [][NextChart]_vars

\* SpecList: subscribes and deletes at different times, then the two routes that
\* return the subscriber list
NextList ==
  \/ Tick
  \/ \E e \in Addresses : Subscribe(1, e)
  \/ \E e \in Addresses : Delete(1, GoodHeader, e)
  \/ Emails(1, GoodHeader)
  \/ Stats(1, GoodHeader)
  \/ StoreStep(1)
  \/ Counted(1)
  \/ \E order \in SortedDesc(mongoEmails) : Listed(1, order)

SpecList == Init /\ [][NextList]_vars

\* SpecModes: the unified server in file mode and in database mode, one request
\* at a time: subscribe, verify-email, delete, stats and list, at any time
InitModes == \E c \in {GmailConfig, MongoConfig} : Started(c, "unified")

NextModes ==
  \/ Tick
  \/ \E e \in Addresses : Subscribe(1, e)
  \/ \E e \in Addresses : Verify(1, e)
  \/ \E e \in Addresses : Delete(1, GoodHeader, e)
  \/ Emails(1, GoodHeader)
  \/ Stats(1, GoodHeader)
  \/ StoreStep(1)
  \/ VerifyStep(1)
  \/ Counted(1)
  \/ \E order \in SortedDesc(mongoEmails) : Listed(1, order)

SpecModes == InitModes /\ [][NextModes]_vars

\* SpecProvider: the servers started under every combination of provider settings;
\* subscribe, verify-email and test-email are then served one at a time
ProviderConfigs ==
  { Config("production", gmail, user, pass, key, AdminEmail, AdminPassword, Undefined) :
      gmail \in BOOLEAN, user \in {Undefined, Str(<<>>), MailUser},
      pass \in {Undefined, MailPass}, key \in {Undefined, ApiKey} }

InitProvider == \E c \in ProviderConfigs, variant \in {"unified", "legacy"} : Started(c, variant)

NextProvider ==
  \/ Subscribe(1, EmailA)
  \/ MkdirDone(1)
  \/ WriteEmailsDone(1)
  \/ WriteStatsDone(1)
  \/ Verify(1, EmailA)
  \/ \E answers \in AnswerStreams :
       VerifySendDone(1, ~sendEmail(emailService, emailProvider, answers).threw)
  \/ TestEmail(1, GoodHeader)
  \/ \E answers \in AnswerStreams :
       TestSendDone(1, ~sendEmail(emailService, emailProvider, answers).threw)

SpecProvider == InitProvider /\ [][NextProvider]_vars

\* SpecLogin: the servers started with ADMIN_EMAIL and ADMIN_PASSWORD set or left
\* out of the environment; login and a protected route are called at any time
AdminConfigs ==
  { Config("production", FALSE, Undefined, Undefined, ApiKey, aEmail, aPass, Undefined) :
      aEmail \in {Undefined, AdminEmail}, aPass \in {Undefined, AdminPassword} }

InitLogin == \E c \in AdminConfigs, variant \in {"unified", "legacy"} : Started(c, variant)

NextLogin ==
  \/ Tick
  \/ \E c \in Credentials : Login(1, c[1], c[2])
  \/ \E h \in Headers : Stats(1, h)

SpecLogin == InitLogin /\ [][NextLogin]_vars

\* SpecSubscribe: one client at a time posts to /api/subscribe, with valid and
\* invalid bodies, at any time
NextSubscribe ==
  \/ Tick
  \/ \E e \in EmailInputs : Subscribe(1, e)
  \/ SubscribeStep(1)

SpecSubscribe == Init /\ [][NextSubscribe]_vars

\* SpecScenario: on a fresh deployment one client subscribes an address, subscribes
\* it again, an admin deletes it, and the address is then looked for (verify-email,
\* or a second delete sent with another token); each request follows the answer to
\* the one before, at any time
OtherHeader == Str(Bearer(TokenOf(0)))

NextScenario ==
  \/ Tick
  \/ (calls = 0 /\ \E e \in Addresses : Subscribe(1, e))
  \/ (calls = 1 /\ req[1].op = "subscribe" /\ Subscribe(1, req[1].email))
  \/ (calls = 2 /\ req[1].op = "subscribe" /\ Delete(1, GoodHeader, req[1].email))
  \/ (req[1].op = "delete" /\ req[1].header = GoodHeader /\ Verify(1, req[1].email))
  \/ (req[1].op = "delete" /\ req[1].header = GoodHeader /\ Delete(1, OtherHeader, req[1].email))
  \/ StoreStep(1)

SpecScenario == Init /\ [][NextScenario]_vars

\* SpecPersist: the file-backed servers, one handler in flight, with writes to
\* the data files that may fail
NextPersist ==
  \/ \E e \in Addresses : Subscribe(1, e)
  \/ \E e \in Addresses : Verify(1, e)
  \/ \E ok \in BOOLEAN : VerifySendDone(1, ok)
  \/ \E e \in Addresses : Delete(1, GoodHeader, e)
  \/ MkdirDone(1)
  \/ WriteEmailsDone(1)
  \/ WriteStatsDone(1)
  \/ SaveFailed(1)

SpecPersist == InitRestart /\ [][NextPersist]_vars

\* SpecNoProvider: servers started without provider credentials
BareDeployments == { <<BareConfig, "unified">>, <<BareConfig, "legacy">>,
                     <<HalfConfig, "unified">>, <<BareMongoConfig, "unified">> }

InitNoProvider == \E d \in BareDeployments : Started(d[1], d[2])

NextNoProvider ==
  \/ \E e \in Addresses : Subscribe(1, e)
  \/ SubscribeStep(1)
  \/ \E e \in Addresses : Verify(1, e)
  \/ \E n \in 0..MaxFiles : Broadcast(1, GoodHeader, Str(<<"News">>), Message, n)
  \/ Counted(1)
  \/ \E order \in SortedDesc(mongoEmails) : Listed(1, order)
  \/ TestEmail(1, GoodHeader)

SpecNoProvider == InitNoProvider /\ [][NextNoProvider]_vars

\* the subscriber store and the stats aggregate of the active backend
Store == IF useMongoDB THEN mongoEmails ELSE emailsDB
Aggregate ==
  IF ~useMongoDB THEN statsDB
  ELSE IF mongoStats = <<>> THEN ZeroStats
  ELSE [totalClicks |-> mongoStats[1].totalClicks, emailsByDay |-> mongoStats[1].emailsByDay,
        totalEmails |-> mongoStats[1].totalEmails]
Quiescent == \A s \in Slots : Free(s)
EmailsOf(seq) == [k \in 1..Len(seq) |-> seq[k].email]
HasRecord(db, e) == FindIndex(db, e) # 0

\* ------------------------------------------------------------------ claims
\* C1: a broadcast that passed validation and walked N recipients of which the
\* provider failed K answers 200 (never 500) with count = N - K and failedEmails
\* holding exactly the K failed addresses in order; a failure does not end the
\* loop: every address of the list walked was attempted.
C1_FailureIsolation ==
  LET r == req[1]
  IN  (r.op = "broadcast" /\ r.pc = "done" /\ ~MissingFields(r.subject, r.message)
         /\ Len(Store) > 0)
      => /\ r.resp.status = 200
         /\ r.resp.body.kind = "broadcast"
         /\ r.attempted = EmailsOf(r.snapshot)
         /\ Len(r.snapshot) = Len(Store)
         /\ r.resp.body.failedEmails = r.failedSends
         /\ r.resp.body.failed = Len(r.failedSends)
         /\ r.resp.body.count = Len(r.attempted) - Len(r.failedSends)

\* a finished broadcast over two recipients whose first send failed and whose
\* second succeeded
C1_Witness ==
  LET r == req[1]
  IN  /\ r.op = "broadcast" /\ r.pc = "done"
      /\ Len(r.attempted) = 2
      /\ r.failedSends = << r.attempted[1] >>
      /\ r.resp.body.count = 1

VerifiedIds(db) == {db[k].id : k \in {j \in 1..Len(db) : db[j].verified}}

\* C8: verify-email for an address without a record answers 404 and sends nothing;
\* a record's verified flag is set only by a verify-email request whose provider
\* send has succeeded, for the record it found; when the send fails the request
\* answers 500 and the records and the persisted files are unchanged.
C8_VerifiedOnlyAfterSend ==
  [][ LET r == req[1]
          q == req'[1]
      IN  /\ (VerifiedIds(Store') \ VerifiedIds(Store) # {})
               => /\ r.op = "verify" /\ r.pc \in {"send", "record_save"}
                  /\ r.attempted = << r.email >>
                  /\ q.failedSends = <<>>
                  /\ VerifiedIds(Store') \ VerifiedIds(Store) = {r.rec.id}
          /\ (q.op = "verify" /\ q # r /\ q.failedSends # <<>>)
               => /\ q.pc = "done" /\ q.resp.status = 500
                  /\ UNCHANGED << emailsDB, mongoEmails, fileEmails, fileStats >>
          /\ (q.op = "verify" /\ q.pc = "done" /\ q # r /\ ~HasRecord(Store, q.email))
               => /\ q.resp.status = 404
                  /\ q.attempted = <<>>
          /\ (q.op = "verify" /\ q.pc = "done" /\ q.resp.status = 200)
               => /\ q.failedSends = <<>>
                  /\ \E k \in 1..Len(Store') : Store'[k].email = q.email /\ Store'[k].verified
    ]_vars

\* a verification whose send failed: answered 500, the record still unverified
C8_Witness ==
  LET r == req[1]
  IN  /\ r.op = "verify" /\ r.pc = "done" /\ r.resp.status = 500
      /\ r.failedSends = << r.email >>
      /\ \E k \in 1..Len(Store) : Store[k].email = r.email /\ ~Store[k].verified

\* C10: an authenticated broadcast with a missing or empty subject or message, or
\* with no subscriber, is answered 400 with no send attempted and no
\* count / failedEmails in the answer.
C10_RejectedBeforeSending ==
  LET r == req[1]
  IN  (r.op = "broadcast" /\ r.pc = "done" /\ adminAuth(r.header)
         /\ (Falsy(r.subject) \/ Falsy(r.message) \/ Len(Store) = 0))
      => /\ r.resp.status = 400
         /\ r.resp.body.kind = "error"
         /\ r.attempted = <<>>

\* a broadcast rejected for its missing subject although subscribers exist
C10_Witness ==
  LET r == req[1]
  IN  /\ r.op = "broadcast" /\ r.pc = "done" /\ r.resp.status = 400
      /\ Falsy(r.subject) /\ Len(Store) > 0

Unique(db) == \A a, b \in 1..Len(db) : db[a].email = db[b].email => a = b
OnDuplicatePath(q) ==
  q.op = "subscribe" /\ (q.ret = "sub_exists" \/ (q.pc = "done" /\ q.resp.body.kind = "exists"))

\* C2: no store ever holds two records for one address; a subscribe that finds a
\* record for its address creates none, answers 200 exists:true, and none of its
\* steps changes the records, totalEmails or a day bucket.
C2_OneRecordPerAddress ==
  [][ /\ Unique(emailsDB') /\ Unique(mongoEmails') /\ Unique(fileEmails'.data)
      /\ \A s \in Slots :
           LET r == req[s]
               q == req'[s]
           IN  /\ (q # r /\ OnDuplicatePath(q))
                    => /\ Store' = Store
                       /\ Aggregate'.totalEmails = Aggregate.totalEmails
                       /\ Aggregate'.emailsByDay = Aggregate.emailsByDay
               /\ (q # r /\ Free(s) /\ q.op = "subscribe" /\ ~useMongoDB
                        /\ HasRecord(emailsDB, q.email))
                    => OnDuplicatePath(q)
               /\ (q # r /\ r.op = "subscribe" /\ r.pc = "email_find"
                        /\ HasRecord(mongoEmails, r.email))
                    => OnDuplicatePath(q)
               /\ (q # r /\ OnDuplicatePath(q) /\ q.pc = "done")
                    => (q.resp.status = 200 /\ q.resp.body.kind = "exists")
    ]_vars

\* a second subscribe for a registered address has answered exists:true
C2_Witness ==
  \E s \in Slots :
    /\ req[s].op = "subscribe" /\ req[s].pc = "done" /\ req[s].resp.body.kind = "exists"
    /\ Len(Store) = 1 /\ Store[1].email = req[s].email
    /\ Aggregate.totalEmails = 1 /\ Aggregate.totalClicks = 2

\* C4: a delete for an address without a record answers 404 and changes neither
\* records nor stats; a delete for a stored address removes that record and sets
\* totalEmails to max(0, totalEmails - 1), never below zero, and no other stats field.
C4_DeleteFloorsAtZero ==
  [][ LET r == req[1]
          q == req'[1]
      IN  /\ (q # r /\ Free(1) /\ q.op = "delete" /\ ~HasRecord(Store, q.email) /\ ~useMongoDB)
               => /\ q.pc = "done" /\ q.resp.status = 404
                  /\ UNCHANGED << memVars, mongoVars, fileVars >>
          /\ (q # r /\ q.op = "delete" /\ Store' # Store)
               => Store' = RemoveAt(Store, FindIndex(Store, q.email))
          /\ (q # r /\ q.op = "delete" /\ Aggregate' # Aggregate)
               => Aggregate' = [Aggregate EXCEPT !.totalEmails = Max(0, Aggregate.totalEmails - 1)]
          /\ Aggregate'.totalEmails >= 0
    ]_vars

\* C5: a broadcast run sends only to addresses that had a record when the run
\* started; an address subscribed while the loop awaits a send is not attempted.
C5_SnapshotRecipients ==
  LET r == req[1]
  IN  r.op = "broadcast"
      => \A k \in 1..Len(r.attempted) :
            \E j \in 1..Len(r.snapshot) : r.snapshot[j].email = r.attempted[k]

Protected == {"stats", "emails", "delete", "broadcast", "test"}

\* C6: a protected operation called with a missing header, a header without the
\* 'Bearer ' prefix, an empty token or a token without the 'admin-token-' prefix
\* answers 401 with no data and touches neither records, stats, files, uploads nor
\* the provider; with a prefixed token, issued by login or not, it proceeds.
C6_GuardedOperations ==
  [][ LET r == req[1]
          q == req'[1]
      IN  /\ (q # r /\ Free(1) /\ q.op \in Protected /\ q.header \in BadHeaders)
               => /\ q.pc = "done" /\ q.resp.status = 401
                  /\ q.resp.body.kind = "error"
                  /\ q.attempted = <<>>
                  /\ UNCHANGED << memVars, mongoVars, fileVars, uploads >>
          /\ (q # r /\ Free(1) /\ q.op \in Protected /\ q.header \notin BadHeaders)
               => q.resp.status # 401
          /\ (q # r /\ ~Free(1)) => q.resp.status # 401
    ]_vars

\* a delete with a wrongly prefixed token was refused while the record exists
C6_Witness ==
  /\ req[1].op = "delete" /\ req[1].pc = "done" /\ req[1].resp.status = 401
  /\ req[1].header = Str(<<"Bearer", " ", "token-", "0">>)
  /\ HasRecord(Store, req[1].email)

\* C7: login answers with a token exactly when email and password both equal the
\* configured ones, otherwise 401 without token; every token it has issued passes
\* the guard, and a protected call carrying one is never answered 401.
C7_LoginTokens ==
  [][ LET r == req[1]
          q == req'[1]
      IN  /\ (q # r /\ q.op = "login")
               => /\ q.pc = "done"
                  /\ IF q.email = AdminEmail /\ q.password = AdminPassword
                     THEN /\ q.resp.status = 200 /\ q.resp.body.kind = "token"
                          /\ issued' = issued \cup {q.resp.body.token}
                     ELSE /\ q.resp.status = 401 /\ q.resp.body.kind = "error"
                          /\ issued' = issued
          /\ \A t \in issued' : adminAuth(Str(Bearer(t)))
          /\ (q # r /\ q.op \in Protected /\ \E t \in issued : q.header = Str(Bearer(t)))
               => q.resp.status # 401
    ]_vars

\* a protected call made with an issued token, at a later clock value, was served
C7_Witness ==
  /\ req[1].op = "delete" /\ req[1].pc = "done" /\ req[1].resp.status = 200
  /\ \E t \in issued : req[1].header = Str(Bearer(t)) /\ t # TokenOf(now)

IsImg(x) == x.tag = "img"
IsNotice(x) == x.tag = "notice"

\* C9: for n images the attachment list has n entries with the content-ids
\* image0 .. image(n-1); under Gmail the HTML has exactly n <img> tags, the i-th
\* referencing cid:image(i), and no notice; under Resend it has no <img> tag and,
\* when n > 0, one notice stating n.
C9_ImagesByProvider ==
  LET r == req[1]
      imgs == SelectSeq(r.html, IsImg)
      notices == SelectSeq(r.html, IsNotice)
      n == r.nimg
  IN  (r.op = "broadcast" /\ r.html # <<>>)
      => /\ n \in 0..MaxImages
         /\ Len(r.attachments) = n
         /\ \A k \in 1..n : r.attachments[k].cid = <<"image", ToString(k - 1)>>
         /\ \A a, b \in 1..n : r.attachments[a].cid = r.attachments[b].cid => a = b
         /\ emailProvider = "Gmail"
              => /\ Len(imgs) = n
                 /\ \A k \in 1..n : imgs[k].src = <<"cid:">> \o r.attachments[k].cid
                 /\ notices = <<>>
         /\ emailProvider = "Resend"
              => /\ imgs = <<>>
                 /\ n > 0 => (Len(notices) = 1 /\ notices[1].text = <<ToString(n)>>)
                 /\ n = 0 => notices = <<>>

\* a Gmail broadcast carrying the largest number of images
C9_Witness ==
  /\ req[1].op = "broadcast" /\ req[1].pc = "done" /\ req[1].resp.status = 200
  /\ emailProvider = "Gmail"
  /\ req[1].nimg = MaxImages
  /\ Len(SelectSeq(req[1].html, IsImg)) = MaxImages

\* C11: started without provider credentials the adapter stays unconfigured and
\* every sendEmail / sendEmailWithAttachments call fails with no provider call in
\* flight; a validated broadcast over N subscribers answers count 0 with all N
\* addresses in failedEmails, and verify-email answers 500 leaving the record
\* unverified.
C11_UnconfiguredSendsFail ==
  /\ emailService = "none" /\ emailProvider = "unknown"
  /\ \A s \in Slots : req[s].pc \notin {"send", "delay"}
  /\ \A k \in 1..Len(Store) : ~Store[k].verified
  /\ LET r == req[1]
     IN  /\ r.failedSends = r.attempted
         /\ (r.op = "broadcast" /\ r.pc = "done" /\ Len(Store) > 0)
              => /\ r.resp.status = 200
                 /\ r.resp.body.count = 0
                 /\ r.resp.body.failedEmails = EmailsOf(r.snapshot)
                 /\ Len(r.resp.body.failedEmails) = Len(Store)
                 /\ r.attempted = r.resp.body.failedEmails
         /\ (r.op = "verify" /\ r.pc = "done" /\ HasRecord(Store, r.email))
              => /\ r.resp.status = 500
                 /\ r.attempted = << r.email >>
         /\ (r.op = "test" /\ r.pc = "done") => r.resp.status = 500

\* a broadcast with an image over two subscribers, both listed as failed
C11_Witness ==
  LET r == req[1]
  IN  /\ r.op = "broadcast" /\ r.pc = "done" /\ r.nimg = 1
      /\ r.resp.status = 200
      /\ r.resp.body.count = 0
      /\ Len(r.resp.body.failedEmails) = 2

\* C12: when subscribe (first-time or duplicate), verify-email or delete answers
\* with success, the persisted subscriber list and the persisted stats aggregate
\* equal the in-memory list and aggregate.
C12_PersistedBeforeReturn ==
  LET r == req[1]
  IN  (r.pc = "done" /\ r.op \in {"subscribe", "verify", "delete"}
         /\ r.resp.status = 200 /\ ~useMongoDB)
      => /\ fileEmails.exists /\ fileStats.exists
         /\ fileEmails.data = emailsDB
         /\ fileStats.data = statsDB

\* C13: a mutating call (subscribe, verify-email, delete) one of whose persistence
\* writes failed has logged the failure, keeps its in-memory mutation, and answers
\* 500, not success.
C13_FailedWriteSurfaced ==
  LET r == req[1]
  IN  (r.pc = "done" /\ r.op \in {"subscribe", "verify", "delete"} /\ r.saveErrors > 0)
      => /\ r.op = "subscribe" => HasRecord(emailsDB, r.email)
         /\ r.op = "delete" => ~HasRecord(emailsDB, r.email)
         /\ r.op = "verify" =>
              \A k \in 1..Len(emailsDB) : emailsDB[k].email = r.email => emailsDB[k].verified
         /\ r.resp.status = 500

\* C14: chartData of GET /api/admin/stats has exactly one {date, count} pair per
\* day bucket of emailsByDay, with that bucket's count, in strictly ascending order
\* of date, whatever the insertion order of the buckets.
C14_ChartAscending ==
  LET r == req[1]
      m == Aggregate.emailsByDay
  IN  (r.op = "stats" /\ r.pc = "done")
      => /\ r.resp.status = 200
         /\ LET c == r.resp.body.chartData
            IN  /\ Len(c) = Len(m)
                /\ \A k \in 1..Len(m) :
                     Cardinality({j \in 1..Len(c) : c[j].date = m[k].date}) = 1
                /\ \A j \in 1..Len(c) : \E k \in 1..Len(m) : c[j] = m[k]
                /\ \A a, b \in 1..Len(c) : a < b => c[a].date < c[b].date

\* the chart of three buckets that were inserted latest day first
C14_Witness ==
  LET r == req[1]
      m == Aggregate.emailsByDay
  IN  /\ r.op = "stats" /\ r.pc = "done" /\ r.resp.status = 200
      /\ Len(m) = 3 /\ m[1].date > m[2].date /\ m[2].date > m[3].date
      /\ r.resp.body.chartData = Reverse(m)

NewestFirst(list) ==
  \A a, b \in 1..Len(list) : a < b => list[a].subscribedAt >= list[b].subscribedAt

\* C15: the list answered by GET /api/admin/emails holds every stored record, most
\* recently subscribed first; recentEmails of GET /api/admin/stats holds the (at
\* most 10) most recent records, most recently subscribed first.
C15_NewestFirst ==
  LET r == req[1]
  IN  /\ (r.op = "emails" /\ r.pc = "done" /\ r.resp.status = 200)
           => /\ Len(r.resp.body.emails) = Len(Store)
              /\ \A k \in 1..Len(Store) : \E j \in 1..Len(Store) : r.resp.body.emails[j] = Store[k]
              /\ NewestFirst(r.resp.body.emails)
      /\ (r.op = "stats" /\ r.pc = "done" /\ r.resp.status = 200)
           => /\ Len(r.resp.body.recentEmails) = (IF Len(Store) < RecentLimit THEN Len(Store) ELSE RecentLimit)
              /\ \A j \in 1..Len(r.resp.body.recentEmails) :
                   \E k \in 1..Len(Store) : r.resp.body.recentEmails[j] = Store[k]
              /\ NewestFirst(r.resp.body.recentEmails)

\* C16: from a store without a, subscribe(a) answers success:true, a second
\* subscribe(a) answers exists:true, the admin delete of a answers success:true,
\* and afterwards a has no record: a following verify-email or delete of a
\* answers 404.
C16_SubscribeTwiceDelete ==
  LET r == req[1]
  IN  r.pc = "done"
      => /\ (r.op = "subscribe" /\ calls = 1)
              => /\ r.resp.status = 200 /\ r.resp.body.kind = "success"
                 /\ HasRecord(Store, r.email)
         /\ (r.op = "subscribe" /\ calls = 2)
              => /\ r.resp.status = 200 /\ r.resp.body.kind = "exists"
                 /\ HasRecord(Store, r.email)
         /\ (r.op = "delete" /\ r.header = GoodHeader)
              => /\ r.resp.status = 200 /\ r.resp.body.kind = "success"
                 /\ ~HasRecord(Store, r.email)
         /\ (r.op = "verify" \/ (r.op = "delete" /\ r.header = OtherHeader))
              => /\ r.resp.status = 404
                 /\ ~HasRecord(Store, r.email)
                 /\ r.attempted = <<>>

\* the whole sequence has run and the last look-up, a verify-email, found nothing
C16_Witness ==
  LET r == req[1]
  IN  /\ r.op = "verify" /\ r.pc = "done" /\ r.resp.status = 404
      /\ calls = 2 /\ Aggregate.totalClicks = 2
      /\ Store = <<>>

\* C17: a subscribe whose email is missing, empty or without '@' is answered 400
\* in the step that receives it, and that step changes nothing: the records, the
\* counters (totalClicks, totalEmails, emailsByDay), the two files and the
\* database documents are as before, and no save or database call is started.
C17_InvalidSubscribeChangesNothing ==
  [][ (req'[1].op = "subscribe" /\ req'[1].email \in BadEmails)
        => /\ req'[1].pc = "done"
           /\ req'[1].resp.status = 400
           /\ UNCHANGED << memVars, fileVars, mongoVars, nextId >> ]_vars

\* an invalid subscribe has been answered 400 on a store that holds a record
C17_Witness ==
  /\ req[1].op = "subscribe" /\ req[1].email = Str(<<"a", "x.com">>)
  /\ req[1].pc = "done" /\ req[1].resp.status = 400
  /\ Store # <<>> /\ Aggregate.totalClicks > 0

\* C18: within one broadcast run every send attempt after the first starts when
\* the inter-send timer fires, whether the attempt before it succeeded or failed.
C18_DelayBetweenSends ==
  [][ ( /\ req[1].op = "broadcast" /\ ~Free(1)
        /\ req'[1].op = "broadcast"
        /\ Len(req[1].attempted) >= 1
        /\ Len(req'[1].attempted) > Len(req[1].attempted) )
        => req[1].pc = "delay" ]_vars

\* C19: a broadcast run sends strictly one after the other: until it answers, of
\* the sends it has started, all but at most one have completed or failed, the run is waiting on
\* the provider exactly while one is outstanding, and a step starts at most one
\* send, to the recipient after the one whose send has just ended.
InFlight(r) == Len(r.attempted) - r.successCount - Len(r.failedSends)

C19_OneSendInFlight ==
  [][ LET r == req'[1]
      IN  (r.op = "broadcast" /\ r.pc # "done")
          => /\ InFlight(r) \in {0, 1}
             /\ InFlight(r) = 1 <=> r.pc = "send"
             /\ (req[1].op = "broadcast" /\ ~Free(1))
                  => /\ Len(r.attempted) <= Len(req[1].attempted) + 1
                     /\ Len(r.attempted) > Len(req[1].attempted)
                          => InFlight(req[1]) = 0 \/ req[1].pc = "send" ]_vars

\* the second send of a run is outstanding, the first having ended
C19_Witness ==
  /\ req[1].op = "broadcast" /\ req[1].pc = "send"
  /\ Len(req[1].attempted) = 2
  /\ req[1].successCount + Len(req[1].failedSends) = 1

\* C20: when the provider fails a send of verify-email, send-broadcast or
\* test-email, the request is answered 500, and the answer carries the provider's
\* raw error text only when NODE_ENV is development.
ProviderFailed(r) ==
  /\ r.pc = "done" /\ r.op \in {"verify", "broadcast", "test"}
  /\ r.failedSends # <<>>

C20_SanitizedProviderErrors ==
  \A s \in Slots :
    ProviderFailed(req[s])
      => /\ req[s].resp.status = 500
         /\ req[s].resp.body.details = "raw" => CONFIG.NODE_ENV = "development"

\* C21: the provider is the one the configuration selects at start-up (Gmail iff
\* USE_GMAIL with both EMAIL_USER and EMAIL_PASSWORD set, otherwise Resend iff
\* RESEND_API_KEY is set, otherwise none), emailService is non-null exactly when
\* emailProvider is 'Gmail' or 'Resend', and no step changes either of them.
C21_ProviderResolvedOnce ==
  [][ LET GmailSelected ==
            CONFIG.USE_GMAIL /\ CONFIG.EMAIL_USER.has /\ CONFIG.EMAIL_USER.val # <<>>
                             /\ CONFIG.EMAIL_PASSWORD.has /\ CONFIG.EMAIL_PASSWORD.val # <<>>
          ResendSelected ==
            ~GmailSelected /\ CONFIG.RESEND_API_KEY.has /\ CONFIG.RESEND_API_KEY.val # <<>>
          Selected(service, provider) ==
            /\ provider = "Gmail" <=> GmailSelected
            /\ provider = "Resend" <=> ResendSelected
            /\ provider = "unknown" <=> (~GmailSelected /\ ~ResendSelected)
            /\ service # "none" <=> provider \in {"Gmail", "Resend"}
            /\ service = "nodemailer" <=> provider = "Gmail"
      IN  /\ Selected(emailService, emailProvider)
          /\ Selected(emailService', emailProvider')
          /\ UNCHANGED << CONFIG, emailService, emailProvider >> ]_vars

\* both providers are configured, Gmail was selected and a test send went through it
C21_Witness ==
  /\ CONFIG.USE_GMAIL /\ CONFIG.RESEND_API_KEY = ApiKey /\ emailProvider = "Gmail"
  /\ req[1].op = "test" /\ req[1].pc = "done" /\ req[1].resp.status = 200
  /\ req[1].resp.body.provider = "Gmail"

C23_EachRecipientOnce ==
  LET r == req[1]
      Times(seq, e) == Cardinality({k \in 1..Len(seq) : seq[k] = e})
  IN  (r.op = "broadcast" /\ r.pc = "done" /\ r.resp.status = 200)
      => /\ \A j \in 1..Len(r.snapshot) :
              (\E k \in 1..Len(Store) : Store[k].id = r.snapshot[j].id)
                => /\ Times(r.attempted, r.snapshot[j].email) = 1
                   /\ Times(r.resp.body.failedEmails, r.snapshot[j].email)
                        = Times(r.failedSends, r.snapshot[j].email)
         /\ r.resp.body.count + r.resp.body.failed = Len(r.attempted)

\* C24: the storage backend never changes once the server serves, and no request
\* that began on the files goes on to the database (or the reverse).
C24_BackendFixed ==
  [][ LET MongoSteps == {"stats_find", "stats_create", "stats_save", "email_find",
                         "email_create", "email_delete", "record_save", "count_all",
                         "count_verified", "count_unverified", "broadcast_list",
                         "stats_list", "emails_list"}
          FileSteps == {"save_mkdir", "save_emails", "save_stats"}
      IN  /\ useMongoDB' = useMongoDB
          /\ \A s \in Slots :
               /\ req'[s].backend = "file" => req'[s].pc \notin MongoSteps
               /\ req'[s].backend = "mongo" => req'[s].pc \notin FileSteps ]_vars

\* C25: an address whose subscribe has just been answered (success or exists) has
\* a record that find returns, and the next step keeps it unless that step belongs
\* to a delete of the address; also when the step is the database connection
\* completing.
C25_RegisteredUntilDeleted ==
  [][ LET r == req[1]
      IN  (r.op = "subscribe" /\ r.pc = "done" /\ r.resp.status = 200)
          => /\ HasRecord(Store, r.email)
             /\ \/ HasRecord(Store', r.email)
                \/ (req'[1].op = "delete" /\ req'[1].email = r.email) ]_vars

\* C26: when the first two subscribe requests of a deployment are for the same
\* address and both have been answered, however they overlapped: both answers are
\* 200, one success:true and one exists:true, one record is stored, and totalEmails
\* and the day buckets count one registration.
C26_ConcurrentSameAddress ==
  LET a == req[1]
      b == req[2]
  IN  ( /\ a.op = "subscribe" /\ a.pc = "done"
        /\ b.op = "subscribe" /\ b.pc = "done"
        /\ a.email = b.email /\ calls = 2 )
      => /\ a.resp.status = 200 /\ b.resp.status = 200
         /\ {a.resp.body.kind, b.resp.body.kind} = {"success", "exists"}
         /\ Cardinality({k \in 1..Len(Store) : Store[k].email = a.email}) = 1
         /\ Aggregate.totalEmails = 1
         /\ SumCounts(Aggregate.emailsByDay) = 1

\* C27: in database mode, when the first two subscribe requests of a deployment
\* are for two different new addresses and both have been answered, however they
\* overlapped, the stored statistics count both: totalClicks = 2, totalEmails = 2
\* and the day buckets sum to 2.
C27_NoLostCounterUpdate ==
  LET a == req[1]
      b == req[2]
  IN  ( /\ useMongoDB
        /\ a.op = "subscribe" /\ a.pc = "done"
        /\ b.op = "subscribe" /\ b.pc = "done"
        /\ a.email # b.email /\ calls = 2 )
      => /\ Aggregate.totalClicks = 2
         /\ Aggregate.totalEmails = 2
         /\ SumCounts(Aggregate.emailsByDay) = 2

\* C28: whenever the stats route answers, its totalEmails equals verifiedEmails +
\* unverifiedEmails and equals the number of records stored at that moment,
\* whatever subscribe, verify-email or delete request is in flight.
C28_StatsAgree ==
  [][ LET q == req'[1]
      IN  (q.op = "stats" /\ q.pc = "done" /\ q.resp.status = 200 /\ q # req[1])
          => /\ q.resp.body.totalEmails
                  = q.resp.body.verifiedEmails + q.resp.body.unverifiedEmails
             /\ q.resp.body.totalEmails = Len(Store') ]_vars

\* C29: in file mode, from an empty store, whenever no request is in flight
\* totalEmails equals the number of records, is not negative, and totalClicks is
\* at least totalEmails.
C29_FileCountersAgree ==
  (~useMongoDB /\ Quiescent)
    => /\ statsDB.totalEmails = Len(emailsDB)
       /\ statsDB.totalEmails >= 0
       /\ statsDB.totalClicks >= statsDB.totalEmails

\* two addresses were subscribed and one of them has been deleted
C29_Witness ==
  /\ ~useMongoDB /\ Quiescent
  /\ req[1].op = "delete" /\ req[1].resp.status = 200
  /\ Len(emailsDB) = 1 /\ statsDB.totalClicks >= 2

\* C30: when verify-email answers success, a record for its address is stored at
\* that moment and is verified, whatever deletes and re-subscribes of the address
\* ran while the send was in flight; and no step puts back a record that is no
\* longer stored, neither into the store nor into emails.json.
C30_VerifiedRecordExists ==
  [][ LET q == req'[1]
          Ids(seq) == {seq[k].id : k \in 1..Len(seq)}
      IN  /\ (q.op = "verify" /\ q.pc = "done" /\ q.resp.status = 200 /\ q # req[1])
               => \E k \in 1..Len(Store') :
                     Store'[k].email = q.email /\ Store'[k].verified
          /\ Ids(Store') \ Ids(Store) \subseteq {nextId}
          /\ Ids(fileEmails'.data) \ Ids(fileEmails.data) \subseteq Ids(emailsDB') ]_vars

\* C31: at most one stats record exists, and every request that holds a stats
\* document in database mode (between getStats and its answer) holds the one
\* stored record.
C31_StatsSingleton ==
  /\ Len(mongoStats) <= 1
  /\ \A s \in Slots :
       ( /\ useMongoDB /\ req[s].op \in {"subscribe", "delete"}
         /\ req[s].pc \in {"email_find", "email_create", "stats_save"} )
         => (mongoStats # <<>> /\ req[s].stats.id = mongoStats[1].id)

\* C32: a login request that supplies no email or no password is answered 401,
\* and when neither ADMIN_EMAIL nor ADMIN_PASSWORD is configured every login
\* request is answered 401.
C32_NoTokenWithoutCredentials ==
  \A s \in Slots :
    (req[s].op = "login" /\ req[s].pc = "done")
      => /\ (req[s].email = Undefined \/ req[s].password = Undefined)
              => req[s].resp.status = 401
         /\ (CONFIG.ADMIN_EMAIL = Undefined /\ CONFIG.ADMIN_PASSWORD = Undefined)
              => req[s].resp.status = 401

\* C33: the day buckets change only by a subscribe request adding 1 to one bucket
\* (in file mode the bucket of the current date), and whenever no request is in
\* flight the buckets sum to the number of records ever registered, which is at
\* least totalEmails.
C33_BucketsCountRegistrations ==
  [][ LET byDay == Aggregate.emailsByDay
          registered == nextId' - 1 - Len(mongoStats')
      IN  /\ Aggregate.emailsByDay' # byDay
               => /\ \E s \in Slots : req[s].op = "subscribe" \/ req'[s].op = "subscribe"
                  /\ \E d \in 0..MaxDay :
                       /\ useMongoDB \/ d = Today(now)
                       /\ Aggregate.emailsByDay' = SetDay(byDay, d, DayCount(byDay, d) + 1)
          /\ Quiescent'
               => /\ SumCounts(Aggregate.emailsByDay') = registered
                  /\ SumCounts(Aggregate.emailsByDay') >= Aggregate.totalEmails' ]_vars

\* C34: when the process starts, either both data files are there and parse and
\* emailsDB and statsDB hold their contents, or emailsDB is empty and statsDB is
\* the zero aggregate.
C34_LoadAllOrNothing ==
  [][ boots' # boots
        => IF /\ fileEmails'.exists /\ fileEmails'.parses
              /\ fileStats'.exists /\ fileStats'.parses
           THEN emailsDB' = fileEmails'.data /\ statsDB' = fileStats'.data
           ELSE emailsDB' = <<>> /\ statsDB' = ZeroStats ]_vars

\* C35: in file mode, once requests that each changed the store and saved it have
\* all been answered, emails.json equals emailsDB and stats.json equals statsDB.
C35_FilesMatchMemory ==
  ( /\ ~useMongoDB /\ Quiescent
    /\ \E s \in Slots : req[s].pc = "done" )
  => /\ fileEmails.exists /\ fileEmails.data = emailsDB
     /\ fileStats.exists /\ fileStats.data = statsDB

\* C36: served one request at a time from an empty store, the unified server
\* answers in file mode and in database mode by the same rule, stated on the
\* stored records in insertion order and the stored aggregate: the lists are the
\* records newest insertion first; the stats body carries the stored counters,
\* the verified counts and the buckets in ascending date order; exists / 404 are
\* answered exactly for an address that has / has no record; records are added,
\* removed and verified one at a time by the request for that address; and
\* between requests totalClicks counts the valid subscribe calls, totalEmails the
\* records, the buckets the registrations, each on the day of its record.
C36_ModesAgree ==
  [][ LET r == req[1]
          q == req'[1]
          View(seq) == [k \in 1..Len(seq) |->
                          [email |-> seq[k].email, subscribedAt |-> seq[k].subscribedAt,
                           verified |-> seq[k].verified]]
          completes == q.pc = "done" /\ q # r
          byDay == Aggregate.emailsByDay
      IN  /\ (completes /\ q.op = "emails" /\ q.resp.status = 200)
               => View(q.resp.body.emails) = Reverse(View(Store'))
          /\ (completes /\ q.op = "stats" /\ q.resp.status = 200)
               => /\ q.resp.body.totalClicks = Aggregate'.totalClicks
                  /\ q.resp.body.totalEmails = Aggregate'.totalEmails
                  /\ q.resp.body.verifiedEmails = CountVerified(Store', TRUE)
                  /\ q.resp.body.unverifiedEmails = CountVerified(Store', FALSE)
                  /\ q.resp.body.chartData = chartData(Aggregate'.emailsByDay)
                  /\ View(q.resp.body.recentEmails)
                       = SliceFirst(Reverse(View(Store')), RecentLimit)
          /\ completes => q.resp.status \in {200, 400, 404, 500}
          /\ (completes /\ q.resp.status = 500) => q.op = "verify"
          /\ (completes /\ q.resp.status = 404)
               => q.op \in {"verify", "delete"} /\ ~HasRecord(Store, q.email) /\ Store' = Store
          /\ (q.ret = "sub_exists" /\ r.ret # "sub_exists") => HasRecord(Store, q.email)
          /\ (completes /\ q.op = "subscribe" /\ q.resp.status = 200)
               => HasRecord(Store', q.email) /\ q.resp.body.kind \in {"exists", "success"}
          /\ (completes /\ q.op = "delete" /\ q.resp.status = 200)
               => ~HasRecord(Store', q.email)
          /\ (completes /\ q.op = "verify" /\ q.resp.status = 200)
               => \E k \in 1..Len(Store') : Store'[k].email = q.email /\ Store'[k].verified
          /\ Len(Store') > Len(Store)
               => /\ q.op = "subscribe" /\ ~HasRecord(Store, q.email)
                  /\ View(Store') = Append(View(Store),
                        [email |-> q.email, subscribedAt |-> Store'[Len(Store')].subscribedAt,
                         verified |-> FALSE])
          /\ Len(Store') < Len(Store)
               => /\ q.op = "delete" /\ HasRecord(Store, q.email)
                  /\ Store' = RemoveAt(Store, FindIndex(Store, q.email))
          /\ (Len(Store') = Len(Store) /\ View(Store') # View(Store))
               => /\ q.op = "verify"
                  /\ Store' = [k \in 1..Len(Store) |->
                       IF Store[k].email = q.email THEN [Store[k] EXCEPT !.verified = TRUE]
                       ELSE Store[k]]
          /\ Aggregate'.emailsByDay # byDay
               => LET d == Today(Store'[Len(Store')].subscribedAt)
                  IN  Aggregate'.emailsByDay = SetDay(byDay, d, DayCount(byDay, d) + 1)
          /\ Quiescent'
               => /\ Aggregate'.totalClicks = calls'
                  /\ Aggregate'.totalEmails = Len(Store')
                  /\ SumCounts(Aggregate'.emailsByDay) = nextId' - 1 - Len(mongoStats') ]_vars

C38_BroadcastChangesNothing ==
  [][ (req'[1] # req[1] /\ req'[1].op = "broadcast")
        => /\ UNCHANGED << emailsDB, statsDB, fileEmails, fileStats, mongoEmails, mongoStats >>
           /\ req'[1].pc \in {"done", "count_all", "broadcast_list", "send", "delay"} ]_vars

\* a broadcast over two subscribers, one of them verified, has been answered with
\* one send delivered and one failed
C38_Witness ==
  /\ req[1].op = "broadcast" /\ req[1].pc = "done" /\ req[1].resp.status = 200
  /\ req[1].resp.body.count = 1 /\ req[1].resp.body.failed = 1
  /\ Len(Store) = 2 /\ \E k \in 1..2 : Store[k].verified

====
